---------------------------- MODULE Spec2Model ----------------------------
(***************************************************************************)
(* Model of the credential store (backend/models/Settings.js) and of the   *)
(* dispatch facade (backend/services/llmService.js).                       *)
(*                                                                         *)
(* Strings are sequences.  A plaintext key is a sequence of bytes, a       *)
(* stored key_hash is a sequence of one-character strings (hex digits and  *)
(* ":").  JavaScript values are records [t, v]: t is the kind of value, v  *)
(* the characters of a string (empty otherwise).  A number is kept in      *)
(* tenths, so that 0.7 and 1.5 are values: v is <<n>> for the number n/10  *)
(* and <<>> for NaN.                                                       *)
(***************************************************************************)
EXTENDS Integers, Sequences, FiniteSets, TLC

VARIABLES
    api_keys,        \* rows of table api_keys: [provider, key_hash, updated_at]
    encryptionEnv,   \* process.env.ENCRYPTION_KEY
    apiKeyEnv,       \* process.env.OPENAI_API_KEY / ANTHROPIC_API_KEY
    res,             \* settlement of the promise of the last Settings call
    lastSet,         \* history: per provider, the last successful setApiKey
    sets,            \* number of setApiKey calls issued so far
    pc,              \* position of the sendMessage invocation
    req,             \* arguments of the sendMessage invocation
    outbound,        \* axios.post calls made by the invocation, in order
    reply,           \* how the awaited axios.post settled
    outcome,         \* what the sendMessage promise settled to
    listed,          \* what the last getAvailableModels call returned
    nodeEnv,         \* process.env.NODE_ENV
    handled,         \* the last error given to the error middleware, and
                     \* the body it answered with
    calls,           \* the sendMessage invocations of concurrent requests:
                     \* per request, what pc, req, outbound, reply and
                     \* outcome are for a single invocation
    settingsRows,    \* rows of table settings: [key, value]
    txn,             \* the transaction of the database connection: whether
                     \* one is open, and the tables as they were at BEGIN
    multi,           \* per request, its setMultiple call: position, locals
                     \* of the closure, statements issued, settlement
    ops              \* the set, setApiKey and getActualApiKey calls of
                     \* other requests on the same connection

storeVars == <<api_keys, encryptionEnv, apiKeyEnv, res, lastSet, sets>>
sendVars == <<pc, req, outbound, reply, outcome, listed>>
serverVars == <<nodeEnv, handled>>
\* The variables that neither the credential store nor sendMessage writes.
dbVars == <<settingsRows, txn, multi, ops>>
otherVars == <<nodeEnv, handled, calls, settingsRows, txn, multi, ops>>
vars == <<api_keys, encryptionEnv, apiKeyEnv, res, lastSet, sets,
          pc, req, outbound, reply, outcome, listed, nodeEnv, handled,
          calls, settingsRows, txn, multi, ops>>

---------------------------------------------------------------------------
(* Bounds of the model.                                                    *)

\* A byte takes the values 0 .. NumByteValues-1.
NumByteValues == 4
\* Number of distinct IVs that crypto.randomBytes draws from.
NumIVs == 2
\* Longest plaintext key passed to setApiKey.
MaxKeyLen == 2
\* setApiKey calls issued in one behaviour.
MaxSets == 2
\* Most entries of the settings object passed to setMultiple.
MaxEntries == 2
\* Longest message list passed to sendMessage.
MaxMessages == 2

---------------------------------------------------------------------------
(* JavaScript values.                                                      *)

Undefined == [t |-> "undefined", v |-> <<>>]
Null == [t |-> "null", v |-> <<>>]
Str(s) == [t |-> "string", v |-> s]
\* Object.prototype.constructor, what obj["constructor"] gives for an object
\* literal that has no own property of that name.
ObjectFunction == [t |-> "function", v |-> <<>>]

\* !!x
Truthy(x) ==
    CASE x.t = "undefined" -> FALSE
      [] x.t = "null" -> FALSE
      [] x.t = "string" -> x.v # <<>>
      [] x.t = "number" -> x.v # <<>> /\ x.v # <<0>>
      [] OTHER -> TRUE

\* a || b
JsOr(a, b) == IF Truthy(a) THEN a ELSE b

\* Names every object inherits from Object.prototype (the ones modelled).
ObjectPrototype == {"constructor"}

\* obj[key] for an object literal whose own properties are the function own.
JsGet(own, key) ==
    IF key \in DOMAIN own THEN own[key]
    ELSE IF key \in ObjectPrototype THEN ObjectFunction
    ELSE Undefined

\* The number tenths/10, and NaN.
Num(tenths) == [t |-> "number", v |-> <<tenths>>]
NaN == [t |-> "number", v |-> <<>>]
Whole(n) == Num(n * 10)

\* parseInt(x) for undefined and for numbers that are not negative: the
\* fraction is cut off.
parseInt(x) ==
    IF x.t = "number" /\ x.v # <<>> THEN Num((x.v[1] \div 10) * 10) ELSE NaN

\* parseFloat(x) for undefined and for numbers.
parseFloat(x) == IF x.t = "number" THEN x ELSE NaN

---------------------------------------------------------------------------
(* AES-256-CBC, scaled down: a block is BlockSize bytes, the block cipher  *)
(* is a keyed permutation of the blocks, chaining and PKCS#7 padding are   *)
(* those of the real cipher.  A block is handled as the number its bytes   *)
(* spell in base NumByteValues; the sum modulo BlockCount stands for the   *)
(* XOR of two blocks.                                                      *)

Bytes == 0 .. (NumByteValues - 1)

\* Block length of the cipher in bytes, and so the IV length and the
\* largest PKCS#7 padding byte.
BlockSize == 2

BlockCount == NumByteValues ^ BlockSize

\* Printable characters: the bytes above the padding values, as printable
\* ASCII (32..126) lies above the padding values 1..16 of AES.
Printable == {b \in Bytes : b > BlockSize}

DefaultSecret == <<"default-key-change-in-production-32-chars">>

\* crypto.createHash('sha256').update(key).digest(): distinct secrets of the
\* model have distinct digests.
Sha256(secret) == IF secret = DefaultSecret THEN 1 ELSE 2

getEncryptionKey(envSecret) ==
    Sha256(JsOr(envSecret, Str(DefaultSecret)).v)

\* The number a sequence of bytes spells, and the BlockSize bytes of a
\* block number.
RECURSIVE BlockNum(_)
BlockNum(bytes) ==
    IF bytes = <<>> THEN 0
    ELSE BlockNum(SubSeq(bytes, 1, Len(bytes) - 1)) * NumByteValues
           + bytes[Len(bytes)]

BlockBytes(n) ==
    [i \in 1..BlockSize |->
        (n \div (NumByteValues ^ (BlockSize - i))) % NumByteValues]

\* The block cipher under key k and its inverse: a rotation of the blocks
\* for key 1, a reflection for the other key.
BlockEncrypt(k, x) ==
    IF k = 1 THEN (x + 1) % BlockCount
    ELSE (BlockCount + 2 - x) % BlockCount

BlockDecrypt(k, y) ==
    IF k = 1 THEN (y + BlockCount - 1) % BlockCount
    ELSE (BlockCount + 2 - y) % BlockCount

\* PKCS#7: pad to a whole number of blocks, always at least one byte.
Pkcs7Pad(bytes) ==
    LET n == BlockSize - (Len(bytes) % BlockSize)
    IN  bytes \o [i \in 1..n |-> n]

\* CBC over the bytes of whole blocks; prev is the number of the preceding
\* ciphertext block (the IV for the first).
RECURSIVE CbcEncrypt(_, _, _)
CbcEncrypt(k, prev, bytes) ==
    IF bytes = <<>> THEN <<>>
    ELSE LET c == BlockEncrypt(k,
                     (BlockNum(SubSeq(bytes, 1, BlockSize)) + prev) % BlockCount)
         IN  BlockBytes(c)
               \o CbcEncrypt(k, c, SubSeq(bytes, BlockSize + 1, Len(bytes)))

RECURSIVE CbcDecrypt(_, _, _)
CbcDecrypt(k, prev, bytes) ==
    IF bytes = <<>> THEN <<>>
    ELSE LET c == BlockNum(SubSeq(bytes, 1, BlockSize))
             p == (BlockDecrypt(k, c) + BlockCount - prev) % BlockCount
         IN  BlockBytes(p)
               \o CbcDecrypt(k, c, SubSeq(bytes, BlockSize + 1, Len(bytes)))

---------------------------------------------------------------------------
(* Hex encoding and the "iv:ciphertext" text of a stored credential.       *)

HexRadix == 16
HexDigits == <<"0", "1", "2", "3", "4", "5", "6", "7",
               "8", "9", "a", "b", "c", "d", "e", "f">>

IsHexDigit(ch) == \E i \in 1..HexRadix : HexDigits[i] = ch
HexValue(ch) == (CHOOSE i \in 1..HexRadix : HexDigits[i] = ch) - 1

\* buf.toString('hex'): two digits per byte.
RECURSIVE ToHex(_)
ToHex(bytes) ==
    IF bytes = <<>> THEN <<>>
    ELSE <<HexDigits[(Head(bytes) \div HexRadix) + 1],
           HexDigits[(Head(bytes) % HexRadix) + 1]>> \o ToHex(Tail(bytes))

\* Buffer.from(text, 'hex'): decodes digit pairs and stops at the first pair
\* that is not hex; a trailing single digit is dropped.
RECURSIVE FromHex(_)
FromHex(text) ==
    IF Len(text) < 2 THEN <<>>
    ELSE IF ~(IsHexDigit(text[1]) /\ IsHexDigit(text[2])) THEN <<>>
    ELSE <<HexValue(text[1]) * HexRadix + HexValue(text[2])>>
             \o FromHex(SubSeq(text, 3, Len(text)))

\* Index of the first ":" of text, 0 when there is none.
ColonAt(text) ==
    IF \E i \in 1..Len(text) : text[i] = ":"
    THEN CHOOSE i \in 1..Len(text) :
             text[i] = ":" /\ \A j \in 1..(i - 1) : text[j] # ":"
    ELSE 0

\* text.split(':'), as the sequence of its pieces.
RECURSIVE Split(_)
Split(text) ==
    IF ColonAt(text) = 0 THEN <<text>>
    ELSE <<SubSeq(text, 1, ColonAt(text) - 1)>>
             \o Split(SubSeq(text, ColonAt(text) + 1, Len(text)))

---------------------------------------------------------------------------
(* Settings: encryptApiKey / decryptApiKey.  A call that throws is         *)
(* [ok |-> FALSE], one that returns is [ok |-> TRUE, v |-> the value].     *)

Threw == [ok |-> FALSE, v |-> <<>>]
Returned(x) == [ok |-> TRUE, v |-> x]

\* The IVs crypto.randomBytes(16) returns in the model: the first NumIVs
\* blocks.
IVs == {BlockBytes(n) : n \in 0..(NumIVs - 1)}

\* cipher.update(apiKey, 'utf8', 'hex') throws for an argument that is no
\* string; the result is iv_hex ":" ciphertext_hex.
encryptApiKey(apiKey, envSecret, iv) ==
    IF apiKey.t # "string" THEN Threw
    ELSE Returned(ToHex(iv) \o <<":">>
                    \o ToHex(CbcEncrypt(getEncryptionKey(envSecret),
                                        BlockNum(iv), Pkcs7Pad(apiKey.v))))

\* decipher.final() checks the PKCS#7 padding and throws when it is wrong.
Pkcs7Unpad(bytes) ==
    IF bytes = <<>> THEN Threw
    ELSE LET n == bytes[Len(bytes)]
         IN  IF n < 1 \/ n > BlockSize \/ n > Len(bytes) THEN Threw
             ELSE IF \E i \in (Len(bytes) - n + 1)..Len(bytes) : bytes[i] # n
             THEN Threw
             ELSE Returned(SubSeq(bytes, 1, Len(bytes) - n))

\* Faulty variant of decryptApiKey: the stored IV is ignored, chaining starts from
\* the zero block.
decryptApiKeyZeroIv(encryptedData, envSecret) ==
    LET parts == Split(encryptedData)
        ct == FromHex(parts[2])
    IN  IF Len(parts) < 2 THEN Threw
        ELSE IF Len(ct) % BlockSize # 0 THEN Threw
        ELSE Pkcs7Unpad(CbcDecrypt(getEncryptionKey(envSecret), 0, ct))

decryptApiKey(encryptedData, envSecret) ==
    LET parts == Split(encryptedData)
        iv == FromHex(parts[1])
        ct == FromHex(parts[2])
    IN  IF Len(parts) < 2 THEN Threw              \* update(undefined, 'hex')
        ELSE IF Len(iv) # BlockSize THEN Threw    \* createDecipheriv: bad IV
        ELSE IF Len(ct) % BlockSize # 0 THEN Threw
        ELSE Pkcs7Unpad(CbcDecrypt(getEncryptionKey(envSecret),
                                   BlockNum(iv), ct))

---------------------------------------------------------------------------
(* The api_keys table and the statements Settings runs on it.              *)

Providers == {"openai", "anthropic", "constructor"}

\* The rows an INSERT OR REPLACE of row removes: those with its provider
\* (column provider is the table's unique key).
Conflicts(old, row) == old.provider = row.provider

\* Faulty variant of InsertOrReplace: a plain INSERT, the old row stays.
InsertOnly(table, row) == table \cup {row}

\* Faulty variant of InsertOrReplace: an update in place that keeps the iv
\* of the old row and takes the ciphertext of the new one.
InsertMixed(table, row) ==
    IF \A r \in table : ~Conflicts(r, row) THEN table \cup {row}
    ELSE {r \in table : ~Conflicts(r, row)}
           \cup {[row EXCEPT !.key_hash = Split(r.key_hash)[1] \o <<":">>
                                             \o Split(row.key_hash)[2]] :
                    r \in {o \in table : Conflicts(o, row)}}

\* INSERT OR REPLACE INTO api_keys (provider, key_hash, updated_at)
InsertOrReplace(table, row) ==
    {r \in table : ~Conflicts(r, row)} \cup {row}

\* ... FROM api_keys WHERE provider = ?
SelectProvider(table, provider) == {r \in table : r.provider = provider}

\* db.get: the first row of the result, undefined when it is empty.
NoRow == [provider |-> "", key_hash |-> <<>>, updated_at |-> 0]
DbGet(rows) == IF rows = {} THEN NoRow ELSE CHOOSE r \in rows : TRUE

\* DELETE FROM api_keys WHERE provider = ?
DeleteProvider(table, provider) == table \ SelectProvider(table, provider)

\* The error a failing statement hands to its callback.
DbError == [t |-> "SQLITE_ERROR", v |-> <<>>]
EncryptError == [t |-> "Failed to encrypt API key", v |-> <<>>]

Resolved(op, provider, x) ==
    [op |-> op, provider |-> provider, settled |-> "resolved", value |-> x]
Rejected(op, provider, e) ==
    [op |-> op, provider |-> provider, settled |-> "rejected", value |-> e]

---------------------------------------------------------------------------
(* Settings: the API key methods.  Each gives the settlement of the        *)
(* promise it returns; dbErr says that the statement failed.               *)

\* getEnvApiKey: envKeys[provider] || null
getEnvApiKey(provider, env) ==
    JsOr(JsGet([openai |-> env.OPENAI_API_KEY,
                anthropic |-> env.ANTHROPIC_API_KEY], provider), Null)

getActualApiKey(table, provider, envSecret, env, dbErr) ==
    LET row == DbGet(SelectProvider(table, provider))
        dec == decryptApiKey(row.key_hash, envSecret)
    IN  IF dbErr THEN Rejected("getActualApiKey", provider, DbError)
        ELSE IF row # NoRow /\ row.key_hash # <<>>
        THEN IF dec.ok
             THEN Resolved("getActualApiKey", provider, Str(dec.v))
             ELSE Resolved("getActualApiKey", provider,
                           getEnvApiKey(provider, env))
        ELSE Resolved("getActualApiKey", provider,
                      getEnvApiKey(provider, env))

\* Faulty variant of getApiKey: reports a key as set only when the row decrypts.
getApiKeyIfDecrypts(table, provider, dbErr) ==
    IF dbErr THEN Rejected("getApiKey", provider, DbError)
    ELSE Resolved("getApiKey", provider,
                  /\ DbGet(SelectProvider(table, provider)) # NoRow
                  /\ decryptApiKey(DbGet(SelectProvider(table, provider)).key_hash,
                                   encryptionEnv).ok)

\* resolve(!!row)
getApiKey(table, provider, dbErr) ==
    IF dbErr THEN Rejected("getApiKey", provider, DbError)
    ELSE Resolved("getApiKey", provider,
                  DbGet(SelectProvider(table, provider)) # NoRow)

\* One entry per row: provider -> {isSet: true, updated_at}.  (created_at
\* is written by the column default and is not modelled.)
getAllApiKeys(table, dbErr) ==
    IF dbErr THEN Rejected("getAllApiKeys", "", DbError)
    ELSE Resolved("getAllApiKeys", "",
                  {[provider |-> r.provider, isSet |-> TRUE,
                    updated_at |-> r.updated_at] : r \in table})

\* resolve({changes: this.changes})
deleteApiKey(table, provider, dbErr) ==
    IF dbErr THEN Rejected("deleteApiKey", provider, DbError)
    ELSE Resolved("deleteApiKey", provider,
                  Cardinality(SelectProvider(table, provider)))

\* The table after deleteApiKey.
deleteApiKeyTable(table, provider, dbErr) ==
    IF dbErr THEN table ELSE DeleteProvider(table, provider)

setApiKey(provider, apiKey, envSecret, iv, dbErr) ==
    IF ~encryptApiKey(apiKey, envSecret, iv).ok
    THEN Rejected("setApiKey", provider, EncryptError)
    ELSE IF dbErr THEN Rejected("setApiKey", provider, DbError)
    ELSE Resolved("setApiKey", provider, [provider |-> provider, set |-> TRUE])

\* Faulty variant of setApiKeyTable: a key that cannot be encrypted removes
\* the row of the provider.
setApiKeyTableClearing(table, provider, apiKey, envSecret, iv, dbErr, now) ==
    IF ~encryptApiKey(apiKey, envSecret, iv).ok
    THEN DeleteProvider(table, provider)
    ELSE IF dbErr THEN table
    ELSE InsertOrReplace(table,
             [provider |-> provider,
              key_hash |-> encryptApiKey(apiKey, envSecret, iv).v,
              updated_at |-> now])

\* The table after setApiKey, at database time now.
setApiKeyTable(table, provider, apiKey, envSecret, iv, dbErr, now) ==
    IF ~encryptApiKey(apiKey, envSecret, iv).ok \/ dbErr THEN table
    ELSE InsertOrReplace(table,
             [provider |-> provider,
              key_hash |-> encryptApiKey(apiKey, envSecret, iv).v,
              updated_at |-> now])

---------------------------------------------------------------------------
(* Inputs and initial state.                                               *)

RECURSIVE SeqsUpTo(_, _)
SeqsUpTo(S, n) ==
    IF n = 0 THEN {<<>>}
    ELSE SeqsUpTo(S, n - 1)
           \cup {Append(q, x) : q \in {r \in SeqsUpTo(S, n - 1) : Len(r) = n - 1},
                                x \in S}

\* Plaintext keys: printable, not empty.
Keys == SeqsUpTo(Printable, MaxKeyLen) \ {<<>>}

\* What a caller may pass as apiKey: a string, or no string at all.
KeyArgs == {Str(k) : k \in Keys} \cup {Undefined}

\* Values of ENCRYPTION_KEY: unset, or a secret of the operator's.
OtherSecret == <<"another-secret">>
EncryptionEnvValues == {Undefined, Str(OtherSecret)}

\* Values of the provider key variables of the environment.
OpenAIEnvKey == <<2, 0, 2, 0>>
AnthropicEnvKey == <<3, 0, 3, 0>>
EnvConfigs ==
    {[OPENAI_API_KEY |-> Undefined, ANTHROPIC_API_KEY |-> Undefined],
     [OPENAI_API_KEY |-> Str(OpenAIEnvKey), ANTHROPIC_API_KEY |-> Str(<<>>)],
     [OPENAI_API_KEY |-> Undefined, ANTHROPIC_API_KEY |-> Str(AnthropicEnvKey)]}

NoCall == [op |-> "none", provider |-> "", settled |-> "none", value |-> Undefined]

\* History of a provider: has = a setApiKey succeeded and no deleteApiKey
\* since; key, secret = its plaintext and the ENCRYPTION_KEY it ran under;
\* earlier = the plaintext it replaced; removed = the last deleteApiKey
\* found a credential.
NeverSet ==
    [has |-> FALSE, key |-> <<>>, secret |-> Undefined,
     replaced |-> FALSE, earlier |-> <<>>, removed |-> FALSE]

\* settings = {}: the default of the fourth parameter of sendMessage.
NoSettings ==
    [max_tokens |-> Undefined, temperature |-> Undefined,
     image_size |-> Undefined, image_quality |-> Undefined,
     image_style |-> Undefined]

NoRequest == [model |-> "", messages |-> <<>>,
              apiKeys |-> [openai |-> Undefined, anthropic |-> Undefined],
              settings |-> NoSettings]
NoResponse == [content |-> Undefined, type |-> "", model |-> "",
               usage |-> Undefined, provider |-> "", prompt |-> Undefined,
               revised_prompt |-> Undefined]
\* getAvailableModels was not called yet.
NotListed == <<[id |-> "", name |-> "", provider |-> "", type |-> ""]>>
NoOutcome == [settled |-> "none", error |-> <<>>, response |-> NoResponse]
NoReply == [kind |-> "none", items |-> <<>>, usage |-> Undefined,
            errMessage |-> Undefined, errType |-> Undefined]

InitStore ==
    /\ api_keys = {}
    /\ encryptionEnv \in EncryptionEnvValues
    /\ apiKeyEnv \in EnvConfigs
    /\ res = NoCall
    /\ lastSet = [p \in Providers |-> NeverSet]
    /\ sets = 0

InitSend ==
    /\ pc = "idle"
    /\ req = NoRequest
    /\ outbound = <<>>
    /\ reply = NoReply
    /\ outcome = NoOutcome
    /\ listed = NotListed

\* Nothing was handed to the error middleware yet.
NotHandled ==
    [err |-> [message |-> Undefined, stack |-> Undefined, status |-> Undefined],
     status |-> Undefined,
     body |-> [error |-> Undefined, stack |-> Undefined]]

InitServer ==
    /\ nodeEnv = Undefined
    /\ handled = NotHandled

\* The requests that are served at the same time.
Requests == {1, 2}

NotCalled ==
    [pc |-> "idle", req |-> NoRequest, outbound |-> <<>>, reply |-> NoReply,
     outcome |-> NoOutcome]

InitCalls == calls = [i \in Requests |-> NotCalled]

\* No transaction is open on the connection.
NoTxn == [open |-> FALSE, settingsRows |-> {}, api_keys |-> {}]

\* No error: the argument of cleanup() on the path without error.
NoError == [t |-> "none", v |-> <<>>]

\* setMultiple not called.  entries, completed, hasError and
\* transactionStarted are the locals of the closure; next is the statement
\* of stmt that runs next; error is the argument of the one cleanup call
\* that went through; issued lists the SQL commands the call has run;
\* failed lists the steps that failed; settlements counts the calls of
\* resolve and reject, and result and reason are the first of them; before
\* is table settings at the call.
NotStarted ==
    [pc |-> "idle", entries |-> <<>>, next |-> 0, completed |-> 0,
     hasError |-> FALSE, transactionStarted |-> FALSE, error |-> NoError,
     issued |-> <<>>, failed |-> <<>>, settlements |-> 0, result |-> "none",
     reason |-> NoError, before |-> {}]

\* A set, setApiKey or getActualApiKey call that was not made.
NoOp == [pc |-> "idle", row |-> NoRow, key |-> Undefined, value |-> Undefined,
         result |-> NoCall]

InitDb ==
    /\ settingsRows = {}
    /\ txn = NoTxn
    /\ multi = [i \in Requests |-> NotStarted]
    /\ ops = [set |-> NoOp, setApiKey |-> NoOp, getActualApiKey |-> NoOp]

Init == InitStore /\ InitSend /\ InitServer /\ InitCalls /\ InitDb

---------------------------------------------------------------------------
(* Actions of the credential store: one per Settings method, each a whole  *)
(* call from its start to the settlement of its promise.                   *)

SetApiKey ==
    \E p \in Providers, k \in KeyArgs, iv \in IVs, dbErr \in BOOLEAN :
        /\ sets < MaxSets
        /\ sets' = sets + 1
        /\ api_keys' = setApiKeyTable(api_keys, p, k, encryptionEnv, iv,
                                      dbErr, sets + 1)
        /\ res' = setApiKey(p, k, encryptionEnv, iv, dbErr)
        /\ lastSet' =
             IF setApiKey(p, k, encryptionEnv, iv, dbErr).settled = "resolved"
             THEN [lastSet EXCEPT ![p] =
                      [has |-> TRUE, key |-> k.v, secret |-> encryptionEnv,
                       replaced |-> lastSet[p].has, earlier |-> lastSet[p].key,
                       removed |-> FALSE]]
             ELSE lastSet
        /\ UNCHANGED <<encryptionEnv, apiKeyEnv, sendVars, otherVars>>

DeleteApiKey ==
    \E p \in Providers, dbErr \in BOOLEAN :
        /\ api_keys' = deleteApiKeyTable(api_keys, p, dbErr)
        /\ res' = deleteApiKey(api_keys, p, dbErr)
        /\ lastSet' =
             IF dbErr THEN lastSet
             ELSE [lastSet EXCEPT ![p] =
                      [NeverSet EXCEPT !.removed = lastSet[p].has]]
        /\ UNCHANGED <<encryptionEnv, apiKeyEnv, sets, sendVars, otherVars>>

GetApiKey ==
    \E p \in Providers, dbErr \in BOOLEAN :
        /\ res' = getApiKey(api_keys, p, dbErr)
        /\ UNCHANGED <<api_keys, encryptionEnv, apiKeyEnv, lastSet, sets,
                       sendVars, otherVars>>

GetAllApiKeys ==
    \E dbErr \in BOOLEAN :
        /\ res' = getAllApiKeys(api_keys, dbErr)
        /\ UNCHANGED <<api_keys, encryptionEnv, apiKeyEnv, lastSet, sets,
                       sendVars, otherVars>>

GetActualApiKey ==
    \E p \in Providers, dbErr \in BOOLEAN :
        /\ res' = getActualApiKey(api_keys, p, encryptionEnv, apiKeyEnv, dbErr)
        /\ UNCHANGED <<api_keys, encryptionEnv, apiKeyEnv, lastSet, sets,
                       sendVars, otherVars>>

\* The server is restarted with another ENCRYPTION_KEY; the database file
\* stays.
Restart ==
    \E s \in EncryptionEnvValues \ {encryptionEnv} :
        /\ encryptionEnv' = s
        /\ res' = NoCall
        /\ UNCHANGED <<api_keys, apiKeyEnv, lastSet, sets, sendVars, otherVars>>

Next ==
    \/ SetApiKey
    \/ DeleteApiKey
    \/ GetApiKey
    \/ GetAllApiKeys
    \/ GetActualApiKey
    \/ Restart

Spec == Init /\ [][Next]_vars

---------------------------------------------------------------------------
(* LLMService: the provider registry and sendMessage.                      *)

OpenAIChat == "https://api.openai.com/v1/chat/completions"
OpenAIImages == "https://api.openai.com/v1/images/generations"
AnthropicMessages == "https://api.anthropic.com/v1/messages"

Descriptor(provider, endpoint, model, type) ==
    [provider |-> provider, endpoint |-> endpoint, model |-> model,
     type |-> type]

\* this.providers, as the constructor builds it.
providers ==
    [m \in {"gpt-3.5-turbo", "gpt-4", "gpt-4-turbo-preview", "dall-e-3",
            "dall-e-2", "gpt-image-1", "claude-3-sonnet", "claude-3-opus",
            "claude-3-haiku"} |->
        CASE m = "gpt-3.5-turbo" ->
               Descriptor("openai", OpenAIChat, "gpt-3.5-turbo", "text")
          [] m = "gpt-4" -> Descriptor("openai", OpenAIChat, "gpt-4", "text")
          [] m = "gpt-4-turbo-preview" ->
               Descriptor("openai", OpenAIChat, "gpt-4-turbo-preview", "text")
          [] m = "dall-e-3" ->
               Descriptor("openai", OpenAIImages, "dall-e-3", "image")
          [] m = "dall-e-2" ->
               Descriptor("openai", OpenAIImages, "dall-e-2", "image")
          [] m = "gpt-image-1" ->
               Descriptor("openai", OpenAIImages, "gpt-image-1", "image")
          [] m = "claude-3-sonnet" ->
               Descriptor("anthropic", AnthropicMessages,
                          "claude-3-sonnet-20240229", "text")
          [] m = "claude-3-opus" ->
               Descriptor("anthropic", AnthropicMessages,
                          "claude-3-opus-20240229", "text")
          [] m = "claude-3-haiku" ->
               Descriptor("anthropic", AnthropicMessages,
                          "claude-3-haiku-20240307", "text")]

\* obj.name for a value that may be a descriptor, a function or undefined:
\* a property the value does not have reads as "undefined".
Prop(obj, name) == IF name \in DOMAIN obj THEN obj[name] ELSE "undefined"

\* Settlements of the promise sendMessage returns.
Throws(message) ==
    [settled |-> "rejected", error |-> message, response |-> NoResponse]
Returns(response) ==
    [settled |-> "resolved", error |-> <<>>, response |-> response]

\* message text of the errors sendMessage and its callees construct.
UnsupportedModel(model) == <<"Unsupported model: ", model>>
UnsupportedProvider(provider) == <<"Unsupported provider: ", provider>>
ImageNeedsUserPrompt == <<"Image generation requires a user prompt">>
OpenAINotConfigured == <<"OpenAI API key not configured">>
AnthropicNotConfigured == <<"Anthropic API key not configured">>
InvalidImageModel(model) == <<"Invalid image model: ", model>>

\* Faulty variant of LastMessage: messages[0].
FirstMessage(messages) ==
    IF messages = <<>> THEN Undefined ELSE messages[1]

\* messages[messages.length - 1]
LastMessage(messages) ==
    IF messages = <<>> THEN Undefined ELSE messages[Len(messages)]

\* The timeout option of the axios call, in milliseconds.
ImageTimeout(model) == IF model = "gpt-image-1" THEN 300000 ELSE 60000
TextTimeout == 30000

\* An axios.post call: where it goes, the credential in its headers, the
\* payload and the timeout.
Post(endpoint, header, apiKey, payload, timeout) ==
    [endpoint |-> endpoint, header |-> header, apiKey |-> apiKey,
     payload |-> payload, timeout |-> timeout]

\* qualityMap of generateImage.
qualityMap ==
    [q \in {"standard", "hd", "low", "medium", "high"} |->
        CASE q = "standard" -> Str(<<"medium">>)
          [] q = "hd" -> Str(<<"high">>)
          [] OTHER -> Str(<<q>>)]

\* payload.quality and payload.style as generateImage sets them; a property
\* that is not set, or is removed for being undefined, reads as undefined.
ImageQuality(model, settings) ==
    IF model = "dall-e-3"
    THEN JsOr(settings.image_quality, Str(<<"standard">>))
    ELSE IF model = "gpt-image-1"
    THEN LET gptImageQuality == JsOr(settings.image_quality, Str(<<"high">>))
         IN  JsOr(JsGet(qualityMap, gptImageQuality.v[1]), Str(<<"high">>))
    ELSE Undefined
ImageStyle(model, settings) ==
    IF model = "dall-e-3"
    THEN JsOr(settings.image_style, Str(<<"natural">>))
    ELSE Undefined

\* The payload of the images/generations call.
ImagePayload(wireModel, model, prompt, settings) ==
    [model |-> wireModel, prompt |-> prompt, n |-> 1,
     size |-> JsOr(settings.image_size, Str(<<"1024x1024">>)),
     quality |-> ImageQuality(model, settings),
     style |-> ImageStyle(model, settings)]

\* Faulty variant of generateImage: posts to the chat endpoint.
generateImageChatEndpoint(model, prompt, apiKey, settings) ==
    IF ~Truthy(apiKey) THEN [throws |-> TRUE, error |-> OpenAINotConfigured]
    ELSE [throws |-> FALSE,
          post |-> Post(OpenAIChat, "Authorization", apiKey,
                        ImagePayload(providers[model].model, model, prompt,
                                     settings),
                        ImageTimeout(model))]

\* The synchronous part of generateImage: the error it throws, or the call
\* it awaits.
generateImage(model, prompt, apiKey, settings) ==
    LET modelConfig == JsGet(providers, model)
    IN  IF ~Truthy(apiKey) THEN [throws |-> TRUE, error |-> OpenAINotConfigured]
        ELSE IF modelConfig = Undefined \/ Prop(modelConfig, "type") # "image"
        THEN [throws |-> TRUE, error |-> InvalidImageModel(model)]
        ELSE [throws |-> FALSE,
              post |-> Post(modelConfig.endpoint, "Authorization", apiKey,
                            ImagePayload(modelConfig.model, model, prompt,
                                         settings),
                            ImageTimeout(model))]

\* The defaults of the text calls: max_tokens, and the temperature 0.7 in
\* tenths.
OpenAIMaxTokens == 2000
AnthropicMaxTokens == 1024
DefaultTemperatureTenths == 7

\* Faulty variant of callOpenAI: no check of the credential before the call.
callOpenAIUnchecked(endpoint, model, messages, apiKey, settings) ==
    [throws |-> FALSE,
     post |-> Post(endpoint, "Authorization", apiKey,
                   [model |-> model, messages |-> messages,
                    max_tokens |-> Whole(OpenAIMaxTokens),
                    temperature |-> Num(DefaultTemperatureTenths)],
                   TextTimeout)]


callOpenAI(endpoint, model, messages, apiKey, settings) ==
    IF ~Truthy(apiKey) THEN [throws |-> TRUE, error |-> OpenAINotConfigured]
    ELSE [throws |-> FALSE,
          post |-> Post(endpoint, "Authorization", apiKey,
                        [model |-> model,
                         messages |-> [i \in 1..Len(messages) |->
                                          [role |-> messages[i].role,
                                           content |-> messages[i].content]],
                         max_tokens |-> JsOr(parseInt(settings.max_tokens),
                                             Whole(OpenAIMaxTokens)),
                         temperature |-> JsOr(parseFloat(settings.temperature),
                                              Num(DefaultTemperatureTenths))],
                        TextTimeout)]

\* messages.filter(msg => msg.role !== 'system'), roles mapped for Anthropic.
RECURSIVE ConversationMessages(_)
ConversationMessages(messages) ==
    IF messages = <<>> THEN <<>>
    ELSE IF Head(messages).role = "system"
    THEN ConversationMessages(Tail(messages))
    ELSE <<[role |-> IF Head(messages).role = "assistant"
                     THEN "assistant" ELSE "user",
            content |-> Head(messages).content]>>
           \o ConversationMessages(Tail(messages))

\* messages.find(msg => msg.role === 'system')
SystemMessage(messages) ==
    IF \E i \in 1..Len(messages) : messages[i].role = "system"
    THEN messages[CHOOSE i \in 1..Len(messages) :
                      /\ messages[i].role = "system"
                      /\ \A j \in 1..(i - 1) : messages[j].role # "system"]
    ELSE Undefined

callAnthropic(endpoint, model, messages, apiKey, settings) ==
    IF ~Truthy(apiKey) THEN [throws |-> TRUE, error |-> AnthropicNotConfigured]
    ELSE [throws |-> FALSE,
          post |-> Post(endpoint, "x-api-key", apiKey,
                        [model |-> model,
                         max_tokens |-> JsOr(parseInt(settings.max_tokens),
                                             Whole(AnthropicMaxTokens)),
                         temperature |-> JsOr(parseFloat(settings.temperature),
                                              Num(DefaultTemperatureTenths)),
                         messages |-> ConversationMessages(messages),
                         system |->
                            IF SystemMessage(messages) = Undefined
                            THEN Undefined
                            ELSE SystemMessage(messages).content],
                        TextTimeout)]

\* Faulty variant of sendMessage: the image branch checks that there is a last
\* message, not its role.
sendMessageAnyRole(model, messages, apiKeys, settings) ==
    LET providerConfig == JsGet(providers, model)
        provider == Prop(providerConfig, "provider")
        endpoint == Prop(providerConfig, "endpoint")
        type == Prop(providerConfig, "type")
        lastMessage == LastMessage(messages)
    IN  IF providerConfig = Undefined
        THEN [throws |-> TRUE, error |-> UnsupportedModel(model)]
        ELSE IF type = "image"
        THEN IF lastMessage = Undefined
             THEN [throws |-> TRUE, error |-> ImageNeedsUserPrompt]
             ELSE generateImage(model, lastMessage.content, apiKeys.openai,
                                settings)
        ELSE IF provider = "openai"
        THEN callOpenAI(endpoint, providerConfig.model, messages, apiKeys.openai,
                        settings)
        ELSE IF provider = "anthropic"
        THEN callAnthropic(endpoint, providerConfig.model, messages,
                           apiKeys.anthropic, settings)
        ELSE [throws |-> TRUE, error |-> UnsupportedProvider(provider)]

\* Faulty variant of sendMessage: the text paths are given each other's key.
sendMessageSwappedKeys(model, messages, apiKeys, settings) ==
    LET providerConfig == JsGet(providers, model)
        provider == Prop(providerConfig, "provider")
        endpoint == Prop(providerConfig, "endpoint")
        type == Prop(providerConfig, "type")
        lastMessage == LastMessage(messages)
    IN  IF providerConfig = Undefined
        THEN [throws |-> TRUE, error |-> UnsupportedModel(model)]
        ELSE IF type = "image"
        THEN IF lastMessage = Undefined \/ lastMessage.role # "user"
             THEN [throws |-> TRUE, error |-> ImageNeedsUserPrompt]
             ELSE generateImage(model, lastMessage.content, apiKeys.openai,
                                settings)
        ELSE IF provider = "openai"
        THEN callOpenAI(endpoint, providerConfig.model, messages,
                        apiKeys.anthropic, settings)
        ELSE IF provider = "anthropic"
        THEN callAnthropic(endpoint, providerConfig.model, messages,
                           apiKeys.openai, settings)
        ELSE [throws |-> TRUE, error |-> UnsupportedProvider(provider)]

\* sendMessage up to its first await: the error it throws, or the axios
\* call it makes.
sendMessage(model, messages, apiKeys, settings) ==
    LET providerConfig == JsGet(providers, model)
        provider == Prop(providerConfig, "provider")
        endpoint == Prop(providerConfig, "endpoint")
        type == Prop(providerConfig, "type")
        lastMessage == LastMessage(messages)
    IN  IF providerConfig = Undefined
        THEN [throws |-> TRUE, error |-> UnsupportedModel(model)]
        ELSE IF type = "image"
        THEN IF lastMessage = Undefined \/ lastMessage.role # "user"
             THEN [throws |-> TRUE, error |-> ImageNeedsUserPrompt]
             ELSE generateImage(model, lastMessage.content, apiKeys.openai,
                                settings)
        ELSE IF provider = "openai"
        THEN callOpenAI(endpoint, providerConfig.model, messages, apiKeys.openai,
                        settings)
        ELSE IF provider = "anthropic"
        THEN callAnthropic(endpoint, providerConfig.model, messages,
                           apiKeys.anthropic, settings)
        ELSE [throws |-> TRUE, error |-> UnsupportedProvider(provider)]

\* Object.keys(this.providers): the own keys in the order the constructor
\* wrote them.
ProviderKeys ==
    <<"gpt-3.5-turbo", "gpt-4", "gpt-4-turbo-preview", "dall-e-3", "dall-e-2",
      "gpt-image-1", "claude-3-sonnet", "claude-3-opus", "claude-3-haiku">>

nameMap ==
    [m \in {"gpt-3.5-turbo", "gpt-4", "gpt-4-turbo-preview", "dall-e-3",
            "dall-e-2", "gpt-image-1", "claude-3-sonnet", "claude-3-opus",
            "claude-3-haiku"} |->
        CASE m = "gpt-3.5-turbo" -> "GPT-3.5 Turbo"
          [] m = "gpt-4" -> "GPT-4"
          [] m = "gpt-4-turbo-preview" -> "GPT-4 Turbo"
          [] m = "dall-e-3" -> "DALL-E 3"
          [] m = "dall-e-2" -> "DALL-E 2"
          [] m = "gpt-image-1" -> "GPT-Image-1"
          [] m = "claude-3-sonnet" -> "Claude 3 Sonnet"
          [] m = "claude-3-opus" -> "Claude 3 Opus"
          [] m = "claude-3-haiku" -> "Claude 3 Haiku"]

\* nameMap[modelId] || modelId, for the own keys of nameMap and for ids that
\* nameMap does not have.
formatModelName(modelId) ==
    IF modelId \in DOMAIN nameMap THEN nameMap[modelId] ELSE modelId

\* Faulty variant of getAvailableModels: the type of every entry is that of
\* the first model.
getAvailableModelsOneType ==
    [i \in 1..Len(ProviderKeys) |->
        [id |-> ProviderKeys[i],
         name |-> formatModelName(ProviderKeys[i]),
         provider |-> providers[ProviderKeys[i]].provider,
         type |-> providers[ProviderKeys[1]].type]]

getAvailableModels ==
    [i \in 1..Len(ProviderKeys) |->
        [id |-> ProviderKeys[i],
         name |-> formatModelName(ProviderKeys[i]),
         provider |-> providers[ProviderKeys[i]].provider,
         type |-> providers[ProviderKeys[i]].type]]

\* Object.keys(this.providers).includes(model)
validateModel(model) == \E i \in 1..Len(ProviderKeys) : ProviderKeys[i] = model

\* config ? config.type : null, as a JavaScript value.
getModelType(model) ==
    LET config == JsGet(providers, model)
    IN  IF config = Undefined THEN Null
        ELSE IF Prop(config, "type") = "undefined" THEN Undefined
        ELSE Str(<<Prop(config, "type")>>)

isImageModel(model) == getModelType(model) = Str(<<"image">>)

---------------------------------------------------------------------------
(* sendMessage after the await.  A reply is how axios.post settled: "ok"   *)
(* with the items of the body (choices, content blocks or image entries)   *)
(* and its usage, "http_error" with the error object of the body, or       *)
(* "no_response" (timeout, network).                                       *)

\* error.message of the axios error.
AxiosMessage(r, timeout) ==
    IF r.kind = "http_error" THEN Str(<<"Request failed with status code">>)
    ELSE Str(<<"timeout exceeded">>)

CannotRead == <<"Cannot read properties of undefined">>

callOpenAIAfter(model, r) ==
    IF r.kind = "ok"
    THEN IF r.items = <<>>
         THEN Throws(<<"OpenAI API Error: ">> \o CannotRead)
         ELSE Returns([NoResponse EXCEPT
                          !.content = r.items[1], !.type = "text",
                          !.model = model, !.usage = r.usage,
                          !.provider = "openai"])
    ELSE Throws(<<"OpenAI API Error: ">>
                  \o JsOr(r.errMessage, AxiosMessage(r, TextTimeout)).v)

\* Faulty variant of callAnthropicAfter: the usage is left out.
callAnthropicAfterNoUsage(model, r) ==
    IF r.kind = "ok"
    THEN IF r.items = <<>>
         THEN Throws(<<"Anthropic API Error: ">> \o CannotRead)
         ELSE Returns([NoResponse EXCEPT
                          !.content = r.items[1], !.type = "text",
                          !.model = model, !.provider = "anthropic"])
    ELSE Throws(<<"Anthropic API Error: ">>
                  \o JsOr(JsOr(r.errMessage, r.errType),
                          AxiosMessage(r, TextTimeout)).v)

callAnthropicAfter(model, r) ==
    IF r.kind = "ok"
    THEN IF r.items = <<>>
         THEN Throws(<<"Anthropic API Error: ">> \o CannotRead)
         ELSE Returns([NoResponse EXCEPT
                          !.content = r.items[1], !.type = "text",
                          !.model = model, !.usage = r.usage,
                          !.provider = "anthropic"])
    ELSE Throws(<<"Anthropic API Error: ">>
                  \o JsOr(JsOr(r.errMessage, r.errType),
                          AxiosMessage(r, TextTimeout)).v)

\* Faulty variant of ImageUrl: the base64 data is passed on as it came.
ImageUrlRawData(items) ==
    IF items = <<>> THEN Undefined
    ELSE IF ~Truthy(items[1].url) /\ Truthy(items[1].b64_json)
    THEN items[1].b64_json
    ELSE items[1].url

\* imageData?.url, or the data URL built from imageData?.b64_json.
ImageUrl(items) ==
    IF items = <<>> THEN Undefined
    ELSE IF ~Truthy(items[1].url) /\ Truthy(items[1].b64_json)
    THEN Str(<<"data:image/png;base64,">> \o items[1].b64_json.v)
    ELSE items[1].url

generateImageAfter(model, prompt, r) ==
    IF r.kind = "ok"
    THEN IF ~Truthy(ImageUrl(r.items))
         THEN Throws(<<"Image generation failed for ", model,
                       ": Response structure issue - check logs for details">>)
         ELSE Returns([NoResponse EXCEPT
                          !.content = ImageUrl(r.items), !.type = "image",
                          !.model = model, !.prompt = prompt,
                          !.revised_prompt =
                              JsOr(r.items[1].revised_prompt, Null),
                          !.provider = "openai"])
    ELSE Throws(<<"Image generation failed: ">>
                  \o JsOr(r.errMessage, AxiosMessage(r, ImageTimeout(model))).v)

\* sendMessage from the settlement of its axios call to its own.
sendMessageAfter(model, messages, r) ==
    LET providerConfig == JsGet(providers, model)
    IN  IF providerConfig.type = "image"
        THEN generateImageAfter(model, LastMessage(messages).content, r)
        ELSE IF providerConfig.provider = "openai"
        THEN callOpenAIAfter(providerConfig.model, r)
        ELSE callAnthropicAfter(providerConfig.model, r)

---------------------------------------------------------------------------
(* Inputs of sendMessage and replies of the providers.                     *)

ModelIds == DOMAIN providers \cup {"not-a-real-model", "constructor"}

Roles == {"system", "user", "assistant"}
Contents == {Str(<<"hi">>), Str(<<"draw a cat">>)}
Messages == [role : Roles, content : Contents]
MessageLists == SeqsUpTo(Messages, MaxMessages)

OpenAIKey == Str(<<"sk-openai">>)
AnthropicKey == Str(<<"sk-ant">>)
ApiKeyArgs ==
    [openai : {Undefined, Null, OpenAIKey},
     anthropic : {Undefined, Str(<<>>), AnthropicKey}]

\* Both providers configured.
BothKeys == [openai |-> OpenAIKey, anthropic |-> AnthropicKey]

\* settings of a text request: max_tokens 1, 1.5 and 8000, temperature 0,
\* 1 and 2, or none.
TextSettings ==
    {[NoSettings EXCEPT !.max_tokens = m, !.temperature = t] :
        m \in {Undefined, Num(10), Num(15), Whole(8000)},
        t \in {Undefined, Num(0), Num(10), Num(20)}}

\* settings of an image request.
ImageSettings ==
    {[NoSettings EXCEPT !.image_quality = q, !.image_size = z,
                        !.image_style = y] :
        q \in {Undefined} \cup
              {Str(<<w>>) : w \in {"standard", "hd", "low", "medium", "high",
                                    "ultra", "constructor"}},
        z \in {Undefined, Str(<<"512x512">>)},
        y \in {Undefined, Str(<<"vivid">>)}}

SettingsArgs == TextSettings \cup ImageSettings

\* Message lists of the requests whose settings vary.
PromptLists ==
    {<<[role |-> "user", content |-> Str(<<"hi">>)]>>,
     <<[role |-> "system", content |-> Str(<<"hi">>)],
       [role |-> "user", content |-> Str(<<"draw a cat">>)]>>}

Usage == [t |-> "usage", v |-> <<10, 5>>]

OkReply(items, usage) ==
    [NoReply EXCEPT !.kind = "ok", !.items = items, !.usage = usage]
ErrorReplies ==
    {[NoReply EXCEPT !.kind = "http_error", !.errMessage = m, !.errType = t] :
        m \in {Undefined, Str(<<"Rate limit reached">>)},
        t \in {Undefined, Str(<<"overloaded_error">>)}}
      \cup {[NoReply EXCEPT !.kind = "no_response"]}

TextReplies ==
    {OkReply(<<>>, Undefined), OkReply(<<Str(<<"hello">>)>>, Usage),
     OkReply(<<Str(<<"hello">>)>>, Undefined), OkReply(<<Null>>, Usage),
     OkReply(<<Str(<<>>)>>, Usage), OkReply(<<Undefined>>, Usage)}
      \cup ErrorReplies

ImageEntries ==
    [url : {Undefined, Str(<<"https://img/1.png">>)},
     b64_json : {Undefined, Str(<<"aGVsbG8=">>)},
     revised_prompt : {Undefined, Str(<<"a cat, drawn">>)}]
ImageReplies ==
    {OkReply(<<>>, Undefined)}
      \cup {OkReply(<<e>>, Undefined) : e \in ImageEntries}
      \cup ErrorReplies

\* Faulty variant of RepliesTo: the call never settles.
NoReplies(model) == {}

RepliesTo(model) ==
    IF providers[model].type = "image" THEN ImageReplies ELSE TextReplies

---------------------------------------------------------------------------
(* Actions of one sendMessage invocation.                                  *)

\* The call, up to the error it throws or the axios call it awaits.
Invoke(model, messages, apiKeys, settings) ==
    /\ pc = "idle"
    /\ req' = [model |-> model, messages |-> messages, apiKeys |-> apiKeys,
               settings |-> settings]
    /\ IF sendMessage(model, messages, apiKeys, settings).throws
       THEN /\ pc' = "done"
            /\ outbound' = outbound
            /\ outcome' =
                 Throws(sendMessage(model, messages, apiKeys, settings).error)
       ELSE /\ pc' = "awaiting"
            /\ outbound' =
                 Append(outbound,
                        sendMessage(model, messages, apiKeys, settings).post)
            /\ outcome' = outcome
    /\ UNCHANGED <<reply, listed, storeVars, otherVars>>

\* sendMessage called without settings.
SendMessage ==
    \E model \in ModelIds, messages \in MessageLists, apiKeys \in ApiKeyArgs :
        Invoke(model, messages, apiKeys, NoSettings)

\* sendMessage called with settings, by a deployment that has both keys.
SendMessageWithSettings ==
    \E model \in DOMAIN providers, messages \in PromptLists,
       settings \in SettingsArgs :
        Invoke(model, messages, BothKeys, settings)

\* getAvailableModels is synchronous and may be called at any time.
GetAvailableModels ==
    /\ listed' = getAvailableModels
    /\ UNCHANGED <<pc, req, outbound, reply, outcome, storeVars, otherVars>>

\* The axios call settles and the invocation runs to its end.
ProviderReply ==
    /\ pc = "awaiting"
    /\ \E r \in RepliesTo(req.model) :
          /\ pc' = "done"
          /\ reply' = r
          /\ outcome' = sendMessageAfter(req.model, req.messages, r)
          /\ UNCHANGED <<req, outbound, listed, storeVars, otherVars>>

InitDispatch ==
    /\ api_keys = {}
    /\ encryptionEnv = Undefined
    /\ apiKeyEnv = [OPENAI_API_KEY |-> Undefined, ANTHROPIC_API_KEY |-> Undefined]
    /\ res = NoCall
    /\ lastSet = [p \in Providers |-> NeverSet]
    /\ sets = 0
    /\ InitSend
    /\ InitServer
    /\ InitCalls
    /\ InitDb

NextDispatch ==
    \/ SendMessage
    \/ ProviderReply
    \/ GetAvailableModels

SpecDispatch == InitDispatch /\ [][NextDispatch]_vars

NextSettings ==
    \/ SendMessageWithSettings
    \/ ProviderReply
    \/ GetAvailableModels

SpecSettings == InitDispatch /\ [][NextSettings]_vars

---------------------------------------------------------------------------
(* Concurrent requests: each calls sendMessage of the one LLMService, and  *)
(* the invocations interleave at their awaits.                             *)

\* Models, keys and replies of the concurrent requests.
ConcurrentModels == {"gpt-4", "claude-3-opus", "dall-e-3", "not-a-real-model"}
ConcurrentKeys == {BothKeys, [openai |-> OpenAIKey, anthropic |-> Undefined]}
ConcurrentReplies(model) ==
    IF providers[model].type = "image"
    THEN {OkReply(<<>>, Undefined),
          OkReply(<<[url |-> Str(<<"https://img/1.png">>),
                     b64_json |-> Undefined,
                     revised_prompt |-> Undefined]>>, Undefined),
          [NoReply EXCEPT !.kind = "no_response"]}
    ELSE {OkReply(<<Str(<<"hello">>)>>, Usage),
          [NoReply EXCEPT !.kind = "http_error",
                          !.errMessage = Str(<<"Rate limit reached">>)],
          [NoReply EXCEPT !.kind = "no_response"]}

\* Faulty variant of ArgumentsOf: the messages are kept in one place for
\* all invocations, and a later invocation overwrites them.
SharedArguments(i) ==
    IF \E j \in Requests : j > i /\ calls[j].req.messages # <<>>
    THEN [calls[i].req EXCEPT
            !.messages =
               calls[CHOOSE j \in Requests :
                        j > i /\ calls[j].req.messages # <<>>].req.messages]
    ELSE calls[i].req

\* The parameters model, messages, apiKeys and settings of invocation i:
\* locals of that invocation.
ArgumentsOf(i) == calls[i].req

\* Request i calls sendMessage.
CallSendMessage(i) ==
    \E model \in ConcurrentModels, messages \in PromptLists,
       apiKeys \in ConcurrentKeys :
        /\ calls[i].pc = "idle"
        /\ calls' =
             [calls EXCEPT ![i] =
                IF sendMessage(model, messages, apiKeys, NoSettings).throws
                THEN [NotCalled EXCEPT
                        !.pc = "done",
                        !.req = [model |-> model, messages |-> messages,
                                 apiKeys |-> apiKeys, settings |-> NoSettings],
                        !.outcome =
                           Throws(sendMessage(model, messages, apiKeys,
                                              NoSettings).error)]
                ELSE [NotCalled EXCEPT
                        !.pc = "awaiting",
                        !.req = [model |-> model, messages |-> messages,
                                 apiKeys |-> apiKeys, settings |-> NoSettings],
                        !.outbound =
                           <<sendMessage(model, messages, apiKeys,
                                         NoSettings).post>>]]
        /\ UNCHANGED <<nodeEnv, handled, dbVars, storeVars, sendVars>>

\* The axios call of request i settles and its invocation runs to its end.
CallReply(i) ==
    /\ calls[i].pc = "awaiting"
    /\ \E r \in ConcurrentReplies(calls[i].req.model) :
          calls' = [calls EXCEPT
                      ![i].pc = "done",
                      ![i].reply = r,
                      ![i].outcome =
                         sendMessageAfter(ArgumentsOf(i).model,
                                          ArgumentsOf(i).messages, r)]
    /\ UNCHANGED <<nodeEnv, handled, dbVars, storeVars, sendVars>>

NextConcurrent ==
    \/ \E i \in Requests : CallSendMessage(i)
    \/ \E i \in Requests : CallReply(i)
    \/ GetAvailableModels

SpecConcurrent == InitDispatch /\ [][NextConcurrent]_vars

---------------------------------------------------------------------------
(* Settings.setMultiple and the calls of other requests on the one         *)
(* database connection.  A step is one command run by the database with    *)
(* its callback; the commands of different calls interleave.               *)

\* INSERT OR REPLACE INTO settings replaces the row that has the key of the
\* new row.
SettingConflicts(old, row) == old.key = row.key

\* INSERT OR REPLACE INTO settings (key, value, updated_at)
InsertOrReplaceSetting(table, row) ==
    {r \in table : ~SettingConflicts(r, row)} \cup {row}

\* The error of a failing command.
StepError(step) == [t |-> "SQLITE_ERROR", v |-> <<step>>]
InsertSteps == <<"INSERT 1", "INSERT 2", "INSERT 3", "INSERT 4">>

\* resolve / reject of the promise of setMultiple.
Settle(m, result, reason) ==
    [m EXCEPT !.pc = "settled",
              !.settlements = @ + 1,
              !.result = IF @ = "none" THEN result ELSE @,
              !.reason = IF m.result = "none" THEN reason ELSE @]

\* cleanup(error), up to stmt.finalize: the first call goes through.
cleanup(m, error) ==
    IF m.hasError THEN m
    ELSE [m EXCEPT !.hasError = TRUE, !.error = error]

\* Faulty variant of runCallback: the error of the statement is not looked
\* at.
runCallbackIgnoringError(m, runErr) ==
    IF m.completed + 1 = Len(m.entries) /\ ~m.hasError
    THEN cleanup([m EXCEPT !.completed = @ + 1], NoError)
    ELSE [m EXCEPT !.completed = @ + 1]

\* The callback of stmt.run.
runCallback(m, runErr) ==
    IF runErr # NoError /\ ~m.hasError THEN cleanup(m, runErr)
    ELSE IF m.completed + 1 = Len(m.entries) /\ ~m.hasError
    THEN cleanup([m EXCEPT !.completed = @ + 1], NoError)
    ELSE [m EXCEPT !.completed = @ + 1]

\* Keys and values of settings.
SettingRows == [key : {"theme", "model"}, value : {"dark", "light"}]

\* Object.entries(settings): at most MaxEntries entries, of distinct keys.
EntryLists ==
    {e \in SeqsUpTo(SettingRows, MaxEntries) :
        \A i, j \in 1..Len(e) : i # j => e[i].key # e[j].key}

\* setMultiple is called.
MultiCall(i, lists) ==
    \E entries \in lists :
        /\ multi[i].pc = "idle"
        /\ multi' =
             [multi EXCEPT ![i] =
                IF entries = <<>>
                THEN Settle([NotStarted EXCEPT !.before = settingsRows],
                            "resolved", NoError)
                ELSE [NotStarted EXCEPT !.pc = "begin", !.entries = entries,
                                        !.before = settingsRows]]
        /\ UNCHANGED <<settingsRows, txn, ops, nodeEnv, handled, calls,
                       storeVars, sendVars>>

\* BEGIN TRANSACTION runs: it fails when a transaction is open on the
\* connection, and may fail otherwise.
MultiBegin(i) ==
    \E dbErr \in BOOLEAN :
        /\ multi[i].pc = "begin"
        /\ IF txn.open \/ dbErr
           THEN /\ multi' =
                     [multi EXCEPT ![i] =
                        [cleanup([@ EXCEPT !.issued = Append(@, "BEGIN"),
                                           !.failed = Append(@, "BEGIN")],
                                 StepError("BEGIN"))
                           EXCEPT !.pc = "finalize"]]
                /\ txn' = txn
           ELSE /\ multi' =
                     [multi EXCEPT ![i] =
                        [@ EXCEPT !.issued = Append(@, "BEGIN"),
                                  !.transactionStarted = TRUE,
                                  !.pc = "run", !.next = 1]]
                /\ txn' = [open |-> TRUE, settingsRows |-> settingsRows,
                           api_keys |-> api_keys]
        /\ UNCHANGED <<settingsRows, ops, nodeEnv, handled, calls, storeVars,
                       sendVars>>

\* The next stmt.run runs, and its callback; stmt.finalize, which cleanup
\* has queued behind them, runs after the last.
MultiRun(i) ==
    \E runFails \in BOOLEAN :
        /\ multi[i].pc = "run"
        /\ settingsRows' =
             IF runFails THEN settingsRows
             ELSE InsertOrReplaceSetting(settingsRows,
                                         multi[i].entries[multi[i].next])
        /\ LET ran == [multi[i] EXCEPT
                          !.issued = Append(@, InsertSteps[multi[i].next]),
                          !.failed = IF runFails
                                     THEN Append(@, InsertSteps[multi[i].next])
                                     ELSE @]
               after == runCallback(ran,
                                    IF runFails
                                    THEN StepError(InsertSteps[multi[i].next])
                                    ELSE NoError)
           IN  multi' =
                 [multi EXCEPT ![i] =
                    [after EXCEPT
                       !.next = @ + 1,
                       !.pc = IF multi[i].next < Len(multi[i].entries)
                              THEN "run"
                              ELSE IF after.hasError THEN "finalize"
                              ELSE "pending"]]
        /\ UNCHANGED <<txn, ops, nodeEnv, handled, calls, storeVars, sendVars>>

\* The callback of stmt.finalize: ROLLBACK or COMMIT is issued when the
\* transaction had started, the promise is settled otherwise.
MultiFinalize(i) ==
    /\ multi[i].pc = "finalize"
    /\ multi' =
         [multi EXCEPT ![i] =
            IF multi[i].transactionStarted
            THEN [@ EXCEPT !.pc = "end",
                           !.issued = Append(@, IF multi[i].error # NoError
                                                THEN "ROLLBACK" ELSE "COMMIT")]
            ELSE IF multi[i].error # NoError
            THEN Settle(@, "rejected", multi[i].error)
            ELSE Settle(@, "resolved", NoError)]
    /\ UNCHANGED <<settingsRows, txn, ops, nodeEnv, handled, calls, storeVars,
                   sendVars>>

\* Faulty variant of RolledBack: ROLLBACK leaves the table as it is.
NotRolledBack(open, saved, current) == current

\* A table after ROLLBACK: as saved at BEGIN when a transaction is open.
RolledBack(open, saved, current) == IF open THEN saved ELSE current

\* ROLLBACK or COMMIT runs, and its callback.  ROLLBACK puts the tables back
\* as they were at BEGIN; COMMIT fails when no transaction is open, and may
\* fail otherwise, leaving the transaction open.
MultiEnd(i) ==
    \E dbErr \in BOOLEAN :
        /\ multi[i].pc = "end"
        /\ IF multi[i].error # NoError
           THEN /\ ~dbErr
                /\ settingsRows' =
                     RolledBack(txn.open, txn.settingsRows, settingsRows)
                /\ api_keys' = RolledBack(txn.open, txn.api_keys, api_keys)
                /\ txn' = NoTxn
                /\ multi' = [multi EXCEPT ![i] =
                               Settle(@, "rejected", multi[i].error)]
           ELSE IF ~txn.open \/ dbErr
           THEN /\ multi' =
                     [multi EXCEPT ![i] =
                        Settle([@ EXCEPT !.failed = Append(@, "COMMIT")],
                               "rejected", StepError("COMMIT"))]
                /\ UNCHANGED <<settingsRows, api_keys, txn>>
           ELSE /\ multi' = [multi EXCEPT ![i] = Settle(@, "resolved", NoError)]
                /\ txn' = NoTxn
                /\ UNCHANGED <<settingsRows, api_keys>>
        /\ UNCHANGED <<ops, nodeEnv, handled, calls, encryptionEnv, apiKeyEnv,
                       res, lastSet, sets, sendVars>>

\* Another request calls Settings.set: db.run is queued.
SetIssue ==
    \E row \in SettingRows :
        /\ ops.set.pc = "idle"
        /\ row.key = "model"
        /\ row.value = "light"
        /\ ops' = [ops EXCEPT !.set = [NoOp EXCEPT !.pc = "queued",
                                                   !.key = Str(<<row.key>>),
                                                   !.value = Str(<<row.value>>)]]
        /\ UNCHANGED <<settingsRows, txn, multi, nodeEnv, handled, calls,
                       storeVars, sendVars>>

\* Its INSERT OR REPLACE runs, and the callback resolves.
SetRun ==
    /\ ops.set.pc = "queued"
    /\ settingsRows' =
         InsertOrReplaceSetting(settingsRows,
                                [key |-> ops.set.key.v[1],
                                 value |-> ops.set.value.v[1]])
    /\ ops' = [ops EXCEPT !.set.pc = "done",
                          !.set.result =
                             Resolved("set", ops.set.key.v[1], ops.set.value)]
    /\ UNCHANGED <<txn, multi, nodeEnv, handled, calls, storeVars, sendVars>>

\* Another request calls setApiKey for openai: the key is encrypted and
\* db.run is queued.
SetApiKeyIssue ==
    \E k \in Keys, iv \in IVs :
        /\ ops.setApiKey.pc = "idle"
        /\ k # lastSet["openai"].key
        /\ ops' = [ops EXCEPT
                     !.setApiKey =
                        [NoOp EXCEPT
                           !.pc = "queued",
                           !.key = Str(k),
                           !.row =
                              [provider |-> "openai",
                               key_hash |->
                                  encryptApiKey(Str(k), encryptionEnv, iv).v,
                               updated_at |-> MaxSets]]]
        /\ UNCHANGED <<settingsRows, txn, multi, nodeEnv, handled, calls,
                       storeVars, sendVars>>

\* Its INSERT OR REPLACE runs, and the callback resolves.
SetApiKeyRun ==
    /\ ops.setApiKey.pc = "queued"
    /\ api_keys' = InsertOrReplace(api_keys, ops.setApiKey.row)
    /\ ops' = [ops EXCEPT
                 !.setApiKey.pc = "done",
                 !.setApiKey.result =
                    Resolved("setApiKey", "openai",
                             [provider |-> "openai", set |-> TRUE])]
    /\ UNCHANGED <<settingsRows, txn, multi, nodeEnv, handled, calls,
                   encryptionEnv, apiKeyEnv, res, lastSet, sets, sendVars>>

\* Another request calls getActualApiKey for openai: db.get is queued.
GetActualIssue ==
    /\ ops.getActualApiKey.pc = "idle"
    /\ ops' = [ops EXCEPT !.getActualApiKey.pc = "queued"]
    /\ UNCHANGED <<settingsRows, txn, multi, nodeEnv, handled, calls,
                   storeVars, sendVars>>

\* Its SELECT runs, and the callback decrypts the row.
GetActualRun ==
    /\ ops.getActualApiKey.pc = "queued"
    /\ ops' = [ops EXCEPT
                 !.getActualApiKey.pc = "done",
                 !.getActualApiKey.result =
                    getActualApiKey(api_keys, "openai", encryptionEnv,
                                    apiKeyEnv, FALSE)]
    /\ UNCHANGED <<settingsRows, txn, multi, nodeEnv, handled, calls,
                   storeVars, sendVars>>

\* A deployment that holds a key for openai in the table and one in the
\* environment, with or without a row of settings.
InitTxn ==
    /\ encryptionEnv \in EncryptionEnvValues
    /\ apiKeyEnv = [OPENAI_API_KEY |-> Str(OpenAIEnvKey),
                    ANTHROPIC_API_KEY |-> Undefined]
    /\ res = NoCall
    /\ sets = 1
    /\ \E k \in Keys, iv \in IVs :
          /\ api_keys = setApiKeyTable({}, "openai", Str(k), encryptionEnv, iv,
                                       FALSE, 1)
          /\ lastSet = [p \in Providers |->
                          IF p = "openai"
                          THEN [NeverSet EXCEPT !.has = TRUE, !.key = k,
                                                !.secret = encryptionEnv]
                          ELSE NeverSet]
    /\ InitSend
    /\ InitServer
    /\ InitCalls
    /\ settingsRows \in {{}, {[key |-> "theme", value |-> "light"]}}
    /\ txn = NoTxn
    /\ multi = [i \in Requests |-> NotStarted]
    /\ ops = [set |-> NoOp, setApiKey |-> NoOp, getActualApiKey |-> NoOp]

\* One setMultiple call, alone on the connection.
NextTxn ==
    \/ MultiCall(1, EntryLists)
    \/ MultiBegin(1)
    \/ MultiRun(1)
    \/ MultiFinalize(1)
    \/ MultiEnd(1)

SpecTxn == InitTxn /\ [][NextTxn]_vars

\* The settings objects of the setMultiple calls that run beside other
\* calls: of two entries for the first caller, of one for the second.
SharedEntryLists(i) ==
    IF i = 1
    THEN {<<[key |-> "theme", value |-> "dark"],
            [key |-> "model", value |-> "dark"]>>}
    ELSE {<<[key |-> "theme", value |-> "dark"]>>}

\* The deployment the concurrent calls start from.
InitShared ==
    /\ InitTxn
    /\ encryptionEnv = Undefined
    /\ settingsRows = {[key |-> "theme", value |-> "light"]}

NextShared ==
    \/ \E i \in Requests : MultiCall(i, SharedEntryLists(i))
    \/ \E i \in Requests : MultiBegin(i)
    \/ \E i \in Requests : MultiRun(i)
    \/ \E i \in Requests : MultiFinalize(i)
    \/ \E i \in Requests : MultiEnd(i)
    \/ SetIssue
    \/ SetRun
    \/ SetApiKeyIssue
    \/ SetApiKeyRun
    \/ GetActualIssue
    \/ GetActualRun

SpecShared == InitShared /\ [][NextShared]_vars

\* The commands a call has issued, as a set.
IssuedBy(m) == {m.issued[n] : n \in 1..Len(m.issued)}

\* The commands of a call that ran all its entries and committed.
FullRun(m) ==
    <<"BEGIN">> \o [n \in 1..Len(m.entries) |-> InsertSteps[n]] \o <<"COMMIT">>

\* C26: the promise of setMultiple settles once and is never left unsettled:
\* every unsettled call has a step to take, and none has run all its
\* callbacks without a settlement to come.  It resolves only when no step
\* failed and either the settings object was empty and no command was
\* issued, or BEGIN, every entry and COMMIT ran; it rejects with the error of
\* the first failing step; ROLLBACK is issued only after a BEGIN that did not
\* fail; COMMIT and ROLLBACK are never both issued.
C26_SettlesOnce ==
    LET m == multi[1] IN
    /\ m.settlements <= 1
    /\ m.pc # "pending"
    /\ m.pc \in {"begin", "run", "finalize", "end"} => ENABLED NextTxn
    /\ m.pc = "settled" <=> m.settlements = 1
    /\ m.result = "resolved" =>
          /\ m.failed = <<>>
          /\ IF m.entries = <<>> THEN m.issued = <<>>
             ELSE m.issued = FullRun(m) /\ m.completed = Len(m.entries)
    /\ m.result = "rejected" =>
          /\ m.failed # <<>>
          /\ m.reason = StepError(m.failed[1])
    /\ m.pc = "settled" /\ m.entries = <<>> =>
          m.result = "resolved" /\ m.issued = <<>>
    /\ "ROLLBACK" \in IssuedBy(m) =>
          m.issued[1] = "BEGIN" /\ m.failed[1] # "BEGIN"
    /\ ~("COMMIT" \in IssuedBy(m) /\ "ROLLBACK" \in IssuedBy(m))

\* Both statements of a call failed, ROLLBACK ran and the promise is
\* rejected.
C26_Witness ==
    /\ multi[1].pc = "settled"
    /\ multi[1].result = "rejected"
    /\ multi[1].failed = <<"INSERT 1", "INSERT 2">>
    /\ "ROLLBACK" \in IssuedBy(multi[1])

\* The steps of a call that failed are statements.
StatementFailed(m) ==
    /\ m.failed # <<>>
    /\ \A n \in 1..Len(m.failed) : m.failed[n] \in
          {InsertSteps[k] : k \in 1..Len(InsertSteps)}

\* C27: alone on the connection, a setMultiple that resolved has every entry
\* in the settings table with its value, and one that rejected because
\* statements failed leaves the table as it was when it was called.
C27_AllOrNothing ==
    LET m == multi[1] IN
    /\ m.result = "resolved" =>
          \A n \in 1..Len(m.entries) : m.entries[n] \in settingsRows
    /\ m.pc = "settled" /\ m.result = "rejected" /\ StatementFailed(m) =>
          settingsRows = m.before

\* The second statement failed after the first had written a row that was
\* not in the table, and the call is rejected.
C27_Witness ==
    /\ multi[1].pc = "settled"
    /\ multi[1].result = "rejected"
    /\ multi[1].failed = <<"INSERT 2">>
    /\ multi[1].entries[1] \notin multi[1].before
    /\ settingsRows = multi[1].before

\* C22: a getActualApiKey for openai that ran beside a setApiKey of k2 over
\* a table holding k1 resolved to k1 as long as the INSERT OR REPLACE of
\* setApiKey has not run, and to k1 or k2 after it; never to another string
\* and never to the key of the environment.
C22_ReadsWholeKey ==
    LET k1 == Str(lastSet["openai"].key)
        k2 == ops.setApiKey.key
    IN  ops.getActualApiKey.pc = "done" =>
          \/ ops.getActualApiKey.result =
                Resolved("getActualApiKey", "openai", k1)
          \/ /\ ops.setApiKey.pc = "done"
             /\ ops.getActualApiKey.result =
                   Resolved("getActualApiKey", "openai", k2)

\* The read resolved to k2, which setApiKey had written with another iv than
\* the one of the row of k1, while a setMultiple transaction was open.
C22_Witness ==
    /\ ops.getActualApiKey.pc = "done"
    /\ ops.setApiKey.pc = "done"
    /\ ops.getActualApiKey.result =
          Resolved("getActualApiKey", "openai", ops.setApiKey.key)
    /\ ops.setApiKey.key # Str(lastSet["openai"].key)
    /\ \A r \in api_keys :
          Split(r.key_hash)[1] # Split(ops.setApiKey.row.key_hash)[1]
    /\ txn.open

\* C28: the writes of other requests are isolated from a setMultiple
\* transaction: after a Settings.set of a key has resolved the settings
\* table holds a row of that key, and after a setApiKey has resolved the
\* api_keys table holds the row it wrote, whatever a setMultiple call on the
\* connection does afterwards.
C28_Isolated ==
    /\ ops.set.pc = "done" =>
          \E r \in settingsRows : Str(<<r.key>>) = ops.set.key
    /\ ops.setApiKey.pc = "done" => ops.setApiKey.row \in api_keys

---------------------------------------------------------------------------
(* server.js: the error handling middleware.                               *)

GenericError == Str(<<"Internal server error">>)

\* Faulty variant of errorBody: the stack is always part of the body.
errorBodyWithStack(env, err) ==
    [error |-> IF env = Str(<<"production">>) THEN GenericError
               ELSE err.message,
     stack |-> err.stack]

\* The JSON body of the answer: error is the generic text in production and
\* err.message otherwise; stack is spread in unless in production.
errorBody(env, err) ==
    [error |-> IF env = Str(<<"production">>) THEN GenericError
               ELSE err.message,
     stack |-> IF env # Str(<<"production">>) THEN err.stack ELSE Undefined]

\* err.status || 500
errorStatus(err) == JsOr(err.status, Whole(500))

\* NODE_ENV of a deployment.
NodeEnvs ==
    {Undefined, Str(<<"production">>), Str(<<"development">>),
     Str(<<"test">>)}

\* Errors that reach the middleware: those sendMessage throws, database
\* errors, and one of a body parser that carries a status.
Errors ==
    [message : {Str(OpenAINotConfigured), Str(ImageNeedsUserPrompt),
                Str(<<"OpenAI API Error: ", "Rate limit reached">>),
                Str(<<"SQLITE_ERROR: no such table: settings">>),
                Str(<<"Failed to encrypt API key: ">>),
                Str(<<"request entity too large">>)},
     stack : {Undefined, Str(<<"Error", "at LLMService.callOpenAI">>)},
     status : {Undefined, Whole(413), Whole(400)}]

\* app.use((err, req, res, next) => ...)
HandleError ==
    \E err \in Errors :
        /\ handled' = [err |-> err, status |-> errorStatus(err),
                       body |-> errorBody(nodeEnv, err)]
        /\ UNCHANGED <<nodeEnv, calls, dbVars, storeVars, sendVars>>

InitServerSpec ==
    /\ InitStore
    /\ InitSend
    /\ nodeEnv \in NodeEnvs
    /\ handled = NotHandled
    /\ InitCalls
    /\ InitDb

NextServer == HandleError

SpecServer == InitServerSpec /\ [][NextServer]_vars

\* sendMessage with the timeout of every axios call eventually firing when
\* no reply comes first.
SpecLive == SpecDispatch /\ WF_vars(ProviderReply)

---------------------------------------------------------------------------
(* Claims about the credential store.  A claim about the result of a call  *)
(* reads res, the settlement of the last call; the reading calls leave the *)
(* table and the environment as they found them, so the state res is seen  *)
(* in is the state the call ran in.                                        *)

\* The environment variable the deployment reserves for a provider.
EnvVarOf(provider) ==
    IF provider = "openai" THEN apiKeyEnv.OPENAI_API_KEY
    ELSE IF provider = "anthropic" THEN apiKeyEnv.ANTHROPIC_API_KEY
    ELSE Undefined

\* The environment value of a provider, null when it has none.
EnvValueOrNull(provider) ==
    IF EnvVarOf(provider).t = "string" /\ EnvVarOf(provider).v # <<>>
    THEN EnvVarOf(provider)
    ELSE Null

\* The last call was getActualApiKey and its SELECT ran.
ReadActual == res.op = "getActualApiKey" /\ res.value # DbError

StoredRows(provider) == SelectProvider(api_keys, provider)

\* The row stored for the provider decrypts under the present secret.
Decryptable(provider) ==
    /\ StoredRows(provider) # {}
    /\ \A r \in StoredRows(provider) : decryptApiKey(r.key_hash, encryptionEnv).ok

\* C1: after a successful setApiKey(provider, k), with ENCRYPTION_KEY as it
\* was at that call, getActualApiKey(provider) resolves to exactly k,
\* whatever was done to other providers in between.
C1_RoundTrip ==
    (/\ ReadActual
     /\ lastSet[res.provider].has
     /\ lastSet[res.provider].secret = encryptionEnv)
    => res = Resolved("getActualApiKey", res.provider,
                      Str(lastSet[res.provider].key))

\* C1 witness: a key read back while another provider holds a credential
\* that was stored after it.
C1_Witness ==
    /\ ReadActual
    /\ lastSet[res.provider].has
    /\ lastSet[res.provider].secret = encryptionEnv
    /\ res.value = Str(lastSet[res.provider].key)
    /\ \E r \in api_keys, q \in StoredRows(res.provider) :
           r.provider # res.provider /\ r.updated_at > q.updated_at

\* C2 (as claimed): when the stored credential cannot be decrypted, because
\* ENCRYPTION_KEY derives another key than at the time of setApiKey or
\* because decryption throws, getActualApiKey resolves to the environment
\* value of the provider, or to null when there is none.
C2_FallbackOnUndecryptable ==
    (/\ res.op = "getActualApiKey"
     /\ res.value # DbError
     /\ StoredRows(res.provider) # {}
     /\ \/ ~Decryptable(res.provider)
        \/ /\ lastSet[res.provider].has
           /\ getEncryptionKey(lastSet[res.provider].secret)
                 # getEncryptionKey(encryptionEnv))
    => res = Resolved("getActualApiKey", res.provider,
                      EnvValueOrNull(res.provider))

\* C3 (as claimed): getActualApiKey resolves to the decrypted stored key
\* when a decryptable credential is stored, otherwise to the environment
\* value of the provider, and to null exactly when there is neither.
C3_TwoStepResolution ==
    ReadActual =>
        /\ res.settled = "resolved"
        /\ Decryptable(res.provider) =>
              \E r \in StoredRows(res.provider) :
                  res.value = Str(decryptApiKey(r.key_hash, encryptionEnv).v)
        /\ ~Decryptable(res.provider) =>
              res.value = EnvValueOrNull(res.provider)
        /\ (res.value = Null) <=>
              (~Decryptable(res.provider)
                 /\ EnvValueOrNull(res.provider) = Null)

\* C4: the table holds at most one row per provider, and getActualApiKey
\* resolves to the plaintext of the latest successful setApiKey of the
\* provider, not to the one it replaced.
C4_Upsert ==
    /\ \A p \in Providers :
          /\ Cardinality(StoredRows(p)) <= 1
          /\ lastSet[p].has <=> StoredRows(p) # {}
          /\ lastSet[p].has =>
                \A r \in StoredRows(p) :
                    decryptApiKey(r.key_hash, lastSet[p].secret)
                        = Returned(lastSet[p].key)
    /\ (/\ ReadActual
        /\ lastSet[res.provider].has
        /\ lastSet[res.provider].secret = encryptionEnv)
       => /\ res.value = Str(lastSet[res.provider].key)
          /\ (/\ lastSet[res.provider].replaced
              /\ lastSet[res.provider].earlier # lastSet[res.provider].key)
             => res.value # Str(lastSet[res.provider].earlier)

\* C4 witness: a provider whose key was replaced by a different one is read
\* and gives the second key.
C4_Witness ==
    /\ ReadActual
    /\ lastSet[res.provider].has
    /\ lastSet[res.provider].replaced
    /\ lastSet[res.provider].earlier # lastSet[res.provider].key
    /\ lastSet[res.provider].secret = encryptionEnv
    /\ res.value = Str(lastSet[res.provider].key)

\* C5 (as claimed): deleteApiKey reports a non-zero count exactly when it
\* removed a credential and leaves no row of the provider; from then to the
\* next setApiKey of the provider getApiKey is false and getActualApiKey
\* resolves to the environment value or null; other providers keep theirs.
C5_DeleteDestroys ==
    /\ (res.op = "deleteApiKey" /\ res.settled = "resolved") =>
          /\ (res.value > 0) <=> lastSet[res.provider].removed
          /\ StoredRows(res.provider) = {}
    /\ \A p \in Providers : lastSet[p].has => StoredRows(p) # {}
    /\ (/\ res.op = "getApiKey"
        /\ res.settled = "resolved"
        /\ lastSet[res.provider].removed) => res.value = FALSE
    /\ (ReadActual /\ lastSet[res.provider].removed) =>
          res = Resolved("getActualApiKey", res.provider,
                         EnvValueOrNull(res.provider))

\* The tables that differ from table in the key_hash of one row.
AllKeyHashes ==
    {encryptApiKey(Str(k), s, iv).v :
        k \in Keys, s \in EncryptionEnvValues, iv \in IVs}
Rekeyed(table) ==
    {(table \ {r}) \cup {[r EXCEPT !.key_hash = h]} :
        r \in table, h \in AllKeyHashes}

\* C6: getApiKey is true exactly when a row of the provider is stored,
\* whatever the environment holds, and getApiKey and getAllApiKeys give the
\* same results on every table that differs only in the stored key values.
C6_ExistenceOnly ==
    /\ (res.op = "getApiKey" /\ res.settled = "resolved") =>
          (res.value <=> \E r \in api_keys : r.provider = res.provider)
    /\ (res.op = "getAllApiKeys" /\ res.settled = "resolved") =>
          {e.provider : e \in res.value} = {r.provider : r \in api_keys}
    /\ \A other \in Rekeyed(api_keys) :
          /\ getAllApiKeys(other, FALSE) = getAllApiKeys(api_keys, FALSE)
          /\ \A p \in Providers :
                getApiKey(other, p, FALSE) = getApiKey(api_keys, p, FALSE)

\* C6 witness: getApiKey answers false for a provider that has an
\* environment value and no row, while another provider has a row.
C6_Witness ==
    /\ res = Resolved("getApiKey", res.provider, FALSE)
    /\ EnvValueOrNull(res.provider) # Null
    /\ api_keys # {}

---------------------------------------------------------------------------
(* Claims about sendMessage, under SpecDispatch.                           *)

Registered(model) == model \in DOMAIN providers
Started == pc # "idle"

\* The credential sendMessage was given for the provider of a registered
\* model.
CredentialFor(model) ==
    IF providers[model].provider = "openai" THEN req.apiKeys.openai
    ELSE req.apiKeys.anthropic

NotConfigured(model) ==
    IF providers[model].provider = "openai" THEN OpenAINotConfigured
    ELSE AnthropicNotConfigured

\* The message list does not end in a user message.
NoUserPrompt ==
    req.messages = <<>> \/ req.messages[Len(req.messages)].role # "user"

\* C7 (as claimed): for a model id that is not registered sendMessage fails
\* with the unsupported-model error and makes no outbound call.
C7_UnknownModel ==
    (Started /\ ~Registered(req.model)) =>
        /\ pc = "done"
        /\ outbound = <<>>
        /\ outcome = Throws(UnsupportedModel(req.model))

\* C8 (as claimed): with the credential of the resolved model's provider
\* absent, sendMessage fails with the provider-not-configured error and
\* makes no outbound call.
C8_NotConfigured ==
    (Started /\ Registered(req.model) /\ ~Truthy(CredentialFor(req.model))) =>
        /\ pc = "done"
        /\ outbound = <<>>
        /\ outcome = Throws(NotConfigured(req.model))

\* C8 (amended): with the credential absent sendMessage makes no outbound
\* call and fails: with the provider-not-configured error, except that an
\* image request whose message list does not end in a user message fails
\* with the user-prompt error; and every outbound call carries a credential.
C8_NotConfiguredAmended ==
    /\ (Started /\ Registered(req.model) /\ ~Truthy(CredentialFor(req.model))) =>
          /\ pc = "done"
          /\ outbound = <<>>
          /\ outcome =
               IF providers[req.model].type = "image" /\ NoUserPrompt
               THEN Throws(ImageNeedsUserPrompt)
               ELSE Throws(NotConfigured(req.model))
    /\ \A i \in 1..Len(outbound) :
          Truthy(outbound[i].apiKey) /\ outbound[i].apiKey = CredentialFor(req.model)

\* C8 witness: an image request that ends in a user message, with no
\* OpenAI credential, has failed as not configured.
C8_Witness ==
    /\ pc = "done"
    /\ Registered(req.model)
    /\ providers[req.model].type = "image"
    /\ ~NoUserPrompt
    /\ ~Truthy(req.apiKeys.openai)
    /\ outcome = Throws(OpenAINotConfigured)
    /\ outbound = <<>>

\* C9: for an image model, a message list that is empty or does not end in
\* a user message fails with the user-prompt error before any outbound call.
C9_ImageNeedsUserPrompt ==
    (/\ Started
     /\ Registered(req.model)
     /\ providers[req.model].type = "image"
     /\ NoUserPrompt)
    => /\ pc = "done"
       /\ outbound = <<>>
       /\ outcome = Throws(ImageNeedsUserPrompt)

\* C9 witness: an image request with a credential whose last message is the
\* assistant's has failed without a call.
C9_Witness ==
    /\ pc = "done"
    /\ Registered(req.model)
    /\ providers[req.model].type = "image"
    /\ Truthy(req.apiKeys.openai)
    /\ req.messages # <<>>
    /\ req.messages[Len(req.messages)].role = "assistant"
    /\ outcome = Throws(ImageNeedsUserPrompt)
    /\ outbound = <<>>

\* C10: an invocation makes at most one outbound call, to the endpoint of
\* the descriptor of its model; a call that fails is not repeated and the
\* invocation fails.
C10_SingleCall ==
    /\ Len(outbound) <= 1
    /\ \A i \in 1..Len(outbound) :
          /\ Registered(req.model)
          /\ outbound[i].endpoint = providers[req.model].endpoint
    /\ (pc = "done" /\ reply.kind \in {"http_error", "no_response"}) =>
          /\ Len(outbound) = 1
          /\ outcome.settled = "rejected"
    /\ (pc = "done" /\ outcome.settled = "resolved") => reply.kind = "ok"

\* C10 witness: an Anthropic call was refused by the provider and the
\* invocation has failed after that one call.
C10_Witness ==
    /\ pc = "done"
    /\ reply.kind = "http_error"
    /\ Len(outbound) = 1
    /\ outbound[1].endpoint = AnthropicMessages
    /\ outcome.settled = "rejected"

\* The invocation has returned a response.
Succeeded == pc = "done" /\ outcome.settled = "resolved"

\* C11 (as claimed): every response sendMessage returns has a content that
\* is a non-empty string; a reply without content makes it fail.
C11_ContentPopulated ==
    Succeeded =>
        /\ outcome.response.content.t = "string"
        /\ outcome.response.content.v # <<>>

\* The image path ran to the end on a reply with status 2xx.
ImageReplied ==
    /\ pc = "done"
    /\ Registered(req.model)
    /\ providers[req.model].type = "image"
    /\ reply.kind = "ok"

MissingImageData(model) ==
    <<"Image generation failed for ", model,
      ": Response structure issue - check logs for details">>

\* C12: on the image path the content is the URL of the first entry when it
\* has one; without a URL and with base64 data it is data:image/png;base64,
\* followed by the data; with neither, or without an entry, the invocation
\* fails with the missing-image-data error and returns nothing.
C12_ImageNormalization ==
    ImageReplied =>
        IF reply.items # <<>> /\ Truthy(reply.items[1].url)
        THEN /\ outcome.settled = "resolved"
             /\ outcome.response.content = reply.items[1].url
        ELSE IF reply.items # <<>> /\ Truthy(reply.items[1].b64_json)
        THEN /\ outcome.settled = "resolved"
             /\ outcome.response.content.t = "string"
             /\ outcome.response.content.v =
                   <<"data:image/png;base64,">> \o reply.items[1].b64_json.v
        ELSE /\ outcome = Throws(MissingImageData(req.model))
             /\ outcome.response = NoResponse

\* C12 witness: a reply that has only base64 data was turned into a data
\* URL.
C12_Witness ==
    /\ ImageReplied
    /\ reply.items # <<>>
    /\ ~Truthy(reply.items[1].url)
    /\ Truthy(reply.items[1].b64_json)
    /\ outcome.settled = "resolved"
    /\ outcome.response.content.v[1] = "data:image/png;base64,"

\* C13 (as claimed): the response of a successful sendMessage(id, ...) has
\* model = id and the type and provider of the descriptor of id.
C13_ResponseIdentity ==
    Succeeded =>
        /\ outcome.response.model = req.model
        /\ outcome.response.type = providers[req.model].type
        /\ outcome.response.provider = providers[req.model].provider

\* The Anthropic path has made its call.
AnthropicCalled ==
    /\ outbound # <<>>
    /\ providers[req.model].provider = "anthropic"

\* The messages of the request after its leading system message, if any.
AfterLeadingSystem ==
    IF req.messages # <<>> /\ req.messages[1].role = "system"
    THEN Tail(req.messages) ELSE req.messages

\* C15 (as claimed): the Anthropic call carries the content of the leading
\* system message, if any, as system, and its messages are the remaining
\* messages of the request, each once and in order, assistant kept and
\* every other role sent as user.
C15_AnthropicShaping ==
    AnthropicCalled =>
        /\ outbound[1].payload.system =
              IF req.messages # <<>> /\ req.messages[1].role = "system"
              THEN req.messages[1].content ELSE Undefined
        /\ Len(outbound[1].payload.messages) = Len(AfterLeadingSystem)
        /\ \A i \in 1..Len(AfterLeadingSystem) :
              /\ i <= Len(outbound[1].payload.messages)
              /\ outbound[1].payload.messages[i].content =
                    AfterLeadingSystem[i].content
              /\ outbound[1].payload.messages[i].role =
                    IF AfterLeadingSystem[i].role = "assistant"
                    THEN "assistant" ELSE "user"

\* C17: a text response carries the usage of the provider's reply as it
\* came, with both token counts, for OpenAI and for Anthropic.
C17_UsagePreserved ==
    (Succeeded /\ providers[req.model].type = "text") =>
        /\ outcome.response.usage = reply.usage
        /\ reply.usage = Usage => outcome.response.usage.v = <<10, 5>>

\* C17 witness: an Anthropic reply that reported its usage was returned.
C17_Witness ==
    /\ Succeeded
    /\ providers[req.model].provider = "anthropic"
    /\ reply.usage = Usage
    /\ outcome.response.usage.v = <<10, 5>>

\* The awaited call failed: an HTTP error status or no response at all.
CallFailed == pc = "done" /\ reply.kind \in {"http_error", "no_response"}

\* The text among the pieces of an error message.
Carries(error, piece) == \E i \in 1..Len(error) : error[i] = piece

\* C18 (as claimed): a failed call reaches the caller as one error that
\* carries the message of the provider when there is one, the description
\* of the transport failure otherwise, and the model id.
C18_NormalizedError ==
    CallFailed =>
        /\ outcome.settled = "rejected"
        /\ outcome.response = NoResponse
        /\ IF Truthy(reply.errMessage)
           THEN Carries(outcome.error, reply.errMessage.v[1])
           ELSE \/ Carries(outcome.error, AxiosMessage(reply, TextTimeout).v[1])
                \/ /\ Truthy(reply.errType)
                   /\ Carries(outcome.error, reply.errType.v[1])
        /\ Carries(outcome.error, req.model)

\* C19: the prompt of an image call is the content of the last message of
\* the request, whatever the messages before it are.
C19_ImagePrompt ==
    (outbound # <<>> /\ providers[req.model].type = "image") =>
        /\ outbound[1].payload.prompt = req.messages[Len(req.messages)].content
        /\ \A earlier \in MessageLists :
              Len(earlier) < MaxMessages =>
                 sendMessage(req.model,
                             Append(earlier, req.messages[Len(req.messages)]),
                             req.apiKeys, req.settings)
                    = [throws |-> FALSE, post |-> outbound[1]]

\* C19 witness: an image call was made for a request of two messages that
\* differ in content.
C19_Witness ==
    /\ outbound # <<>>
    /\ providers[req.model].type = "image"
    /\ Len(req.messages) > 1
    /\ req.messages[1].content # req.messages[Len(req.messages)].content
    /\ outbound[1].payload.prompt = req.messages[Len(req.messages)].content

\* C20: every registered id has one descriptor, of type text or image and
\* of provider openai or anthropic, and getAvailableModels returns one entry
\* per registered id, with the provider and type of its descriptor, the
\* same list at every call.
C20_RegistryWellFormed ==
    /\ \A id \in DOMAIN providers :
          /\ providers[id].type \in {"text", "image"}
          /\ providers[id].provider \in {"openai", "anthropic"}
          /\ JsGet(providers, id) = providers[id]
    /\ listed # NotListed =>
          /\ \A id \in DOMAIN providers :
                Cardinality({i \in 1..Len(listed) : listed[i].id = id}) = 1
          /\ \A i \in 1..Len(listed) :
                /\ listed[i].id \in DOMAIN providers
                /\ listed[i].provider = providers[listed[i].id].provider
                /\ listed[i].type = providers[listed[i].id].type
          /\ listed = getAvailableModels

\* C20 witness: the models were listed after a request was answered, and
\* the list has the image model dall-e-3 and the Anthropic model
\* claude-3-haiku.
C20_Witness ==
    /\ pc = "done"
    /\ \E i, j \in 1..Len(listed) :
          /\ listed[i].id = "dall-e-3" /\ listed[i].type = "image"
          /\ listed[j].id = "claude-3-haiku"
          /\ listed[j].provider = "anthropic"

\* The provider that owns an endpoint.
OwnerOf(endpoint) ==
    IF endpoint \in {OpenAIChat, OpenAIImages} THEN "openai" ELSE "anthropic"

\* C25: the key of an outbound call is the credential the caller gave for
\* the provider that owns the endpoint of the call, sent in that provider's
\* header; the key of the other provider is not sent.
C25_CredentialRouting ==
    \A i \in 1..Len(outbound) :
        /\ outbound[i].endpoint \in {OpenAIChat, OpenAIImages, AnthropicMessages}
        /\ IF OwnerOf(outbound[i].endpoint) = "openai"
           THEN /\ outbound[i].apiKey = req.apiKeys.openai
                /\ outbound[i].header = "Authorization"
                /\ outbound[i].apiKey # AnthropicKey
           ELSE /\ outbound[i].apiKey = req.apiKeys.anthropic
                /\ outbound[i].header = "x-api-key"
                /\ outbound[i].apiKey # OpenAIKey

\* C25 witness: a caller that holds both keys called an Anthropic model and
\* the call carries the Anthropic key.
C25_Witness ==
    /\ outbound # <<>>
    /\ req.apiKeys = BothKeys
    /\ outbound[1].endpoint = AnthropicMessages
    /\ outbound[1].apiKey = AnthropicKey

\* The invocation failed with the unsupported-model error.
FailedUnsupportedModel ==
    pc = "done" /\ outcome = Throws(UnsupportedModel(req.model))

\* What shows of the path an invocation took: a call to the images
\* endpoint or the user-prompt error is the image path, a call to another
\* endpoint is not, and an invocation that made no call on the image path
\* failed for the prompt or for the key.
ImagePathSeenFor(isImage) ==
    /\ outbound # <<>> => (isImage <=> outbound[1].endpoint = OpenAIImages)
    /\ outcome = Throws(ImageNeedsUserPrompt) => isImage
    /\ (isImage /\ pc = "done" /\ outbound = <<>>) =>
          outcome \in {Throws(ImageNeedsUserPrompt), Throws(OpenAINotConfigured)}

\* C30 (as claimed): for every id, validateModel(id) is true exactly when
\* sendMessage(id, ...) does not fail with the unsupported-model error,
\* getModelType(id) is null exactly when validateModel(id) is false, and
\* isImageModel(id) is true exactly when sendMessage takes the image path.
C30_PredicatesAgree ==
    Started =>
        /\ validateModel(req.model) <=> ~FailedUnsupportedModel
        /\ (getModelType(req.model) = Null) <=> ~validateModel(req.model)
        /\ ImagePathSeenFor(isImageModel(req.model))

---------------------------------------------------------------------------
(* Claims about the settings of a request, under SpecSettings.             *)

\* An outbound call of the image path, and one of a text path.
ImageCalled ==
    outbound # <<>> /\ providers[req.model].type = "image"
TextCalled ==
    outbound # <<>> /\ providers[req.model].type = "text"

\* The quality the caller asked for, "" when none was given.
AskedQuality ==
    IF req.settings.image_quality.t = "string"
    THEN req.settings.image_quality.v[1] ELSE ""

\* C14 (as claimed): for gpt-image-1 the quality sent is low, medium or
\* high: hd gives high, standard gives medium, low, medium and high give
\* themselves, anything else and nothing give high; dall-e-3 sends the
\* quality it was given (standard when none) and dall-e-2 sends none.
C14_QualityRemap ==
    ImageCalled =>
        CASE req.model = "gpt-image-1" ->
               outbound[1].payload.quality =
                  CASE AskedQuality = "hd" -> Str(<<"high">>)
                    [] AskedQuality = "standard" -> Str(<<"medium">>)
                    [] AskedQuality \in {"low", "medium", "high"} ->
                         Str(<<AskedQuality>>)
                    [] OTHER -> Str(<<"high">>)
          [] req.model = "dall-e-3" ->
               outbound[1].payload.quality =
                  IF AskedQuality = "" THEN Str(<<"standard">>)
                  ELSE Str(<<AskedQuality>>)
          [] OTHER -> outbound[1].payload.quality = Undefined

\* The default of max_tokens of the provider of the request.
DefaultMaxTokens ==
    IF providers[req.model].provider = "openai" THEN Whole(OpenAIMaxTokens)
    ELSE Whole(AnthropicMaxTokens)

\* C16 (as claimed): a text call carries temperature 0.7 and max_tokens
\* 2000 (OpenAI) or 1024 (Anthropic) when the caller gave none, and the
\* value the caller gave otherwise, temperature 0 included.
C16_TextDefaults ==
    TextCalled =>
        /\ outbound[1].payload.temperature =
              IF req.settings.temperature = Undefined
              THEN Num(DefaultTemperatureTenths)
              ELSE req.settings.temperature
        /\ outbound[1].payload.max_tokens =
              IF req.settings.max_tokens = Undefined
              THEN DefaultMaxTokens
              ELSE req.settings.max_tokens

---------------------------------------------------------------------------
(* Claims about a failing setApiKey, under Spec.                           *)

\* C29: in every state of the store, a setApiKey whose key is not a string
\* rejects with the failed-to-encrypt error and leaves the table as it is:
\* every provider resolves to what it resolved to before the call.
C29_EncryptFailure ==
    \A p \in Providers, k \in KeyArgs, iv \in IVs, dbErr \in BOOLEAN :
        k.t # "string" =>
            /\ setApiKey(p, k, encryptionEnv, iv, dbErr)
                  = Rejected("setApiKey", p, EncryptError)
            /\ setApiKeyTable(api_keys, p, k, encryptionEnv, iv, dbErr,
                              sets + 1) = api_keys
            /\ \A q \in Providers :
                  getActualApiKey(setApiKeyTable(api_keys, p, k, encryptionEnv,
                                                 iv, dbErr, sets + 1),
                                  q, encryptionEnv, apiKeyEnv, FALSE)
                    = getActualApiKey(api_keys, q, encryptionEnv, apiKeyEnv,
                                      FALSE)

\* C29 witness: a setApiKey was rejected for its key while the provider
\* holds a credential.
C29_Witness ==
    /\ res.op = "setApiKey"
    /\ res.value = EncryptError
    /\ StoredRows(res.provider) # {}

---------------------------------------------------------------------------
(* Claims about the error middleware, under SpecServer.                    *)

\* C24: in production the body has the generic text as error and no stack,
\* so neither the message nor the stack of the error; outside production
\* the body has the message and the stack of the error.
C24_ProductionErrorBody ==
    handled # NotHandled =>
        IF nodeEnv = Str(<<"production">>)
        THEN /\ handled.body.error = GenericError
             /\ handled.body.error # handled.err.message
             /\ handled.body.stack = Undefined
        ELSE /\ handled.body.error = handled.err.message
             /\ handled.body.stack = handled.err.stack

\* C24 witness: in production an error that has a message and a stack was
\* answered.
C24_Witness ==
    /\ nodeEnv = Str(<<"production">>)
    /\ Truthy(handled.err.message)
    /\ Truthy(handled.err.stack)
    /\ handled.body.error = GenericError

---------------------------------------------------------------------------
(* Claims about termination, under SpecLive.                               *)

\* C23: an invocation that has opened its call completes, with a response
\* or with an error, and what ends the wait is the settlement of the call:
\* a reply of the provider or the failure of the transport, the timeout
\* among them.
C23_Completes ==
    /\ (pc = "awaiting") ~> (pc = "done")
    /\ [](pc = "done" => outcome.settled \in {"resolved", "rejected"})
    /\ [][(pc = "awaiting" /\ pc' # "awaiting") =>
             /\ pc' = "done"
             /\ reply'.kind \in {"ok", "http_error", "no_response"}
             /\ outbound' = outbound]_vars

\* C23 witness: an invocation ended by the timeout of its call.
C23_Witness ==
    /\ pc = "done"
    /\ outbound # <<>>
    /\ reply.kind = "no_response"
    /\ outcome.settled = "rejected"

---------------------------------------------------------------------------
(* Claims about concurrent requests, under SpecConcurrent.                 *)

\* What invocation i gives when it runs alone with its arguments and the
\* settlement of its call.
AloneOutcome(i) ==
    IF sendMessage(calls[i].req.model, calls[i].req.messages,
                   calls[i].req.apiKeys, calls[i].req.settings).throws
    THEN Throws(sendMessage(calls[i].req.model, calls[i].req.messages,
                            calls[i].req.apiKeys, calls[i].req.settings).error)
    ELSE sendMessageAfter(calls[i].req.model, calls[i].req.messages,
                          calls[i].reply)

=============================================================================
